---------------------------- MODULE Spec2Model ----------------------------
(***************************************************************************)
(* Reminder scheduling and GitLab status synchronisation of the SITCON     *)
(* marketing bot: the persisted reminder / review rows, the in-memory job  *)
(* queue (one-shot jobs named remind_<id>), the startup loader, the        *)
(* per-reminder fire callback, manual mark-done and the sync pass.         *)
(*                                                                         *)
(* Every `await` on the store or on the network is a point where another   *)
(* coroutine may run, so a handler is cut into steps at the awaits that    *)
(* separate its reads of shared state from its writes.                     *)
(***************************************************************************)
EXTENDS Integers, Sequences, FiniteSets, TLC

\* ---------------------------------------------------------------- bounds
MaxTime == 1
MaxRem == 1
MaxRev == 1
MaxInterval == 1
MaxSeedRev == 2

\* ------------------------------------------------------------ vocabulary
\* A nullable column / an Optional value: NULL or a one-element tuple.
NULL == <<>>
Some(x) == <<x>>
Val(o) == o[1]

\* context.user_data without the keys of the time stepper (python-telegram-bot
\* keeps user_data in memory; main.py builds the Application without persistence)
NoUserData == [remind_h |-> NULL, remind_m |-> NULL]

Times == 0..MaxTime
RemIds == 1..MaxRem
RevIds == 1..MaxRev
Iids == 1..(MaxRem + MaxRev)
SponsorNames == {"acme", "globex"}

\* Environment values the model draws from.  A value is the raw text of the
\* variable; UNSET is a variable that is not in the environment.
UNSET == "<unset>"
Envs ==
    {[ALLOWED_CHAT_IDS |-> <<"1", "x", "2">>, GITLAB_SYNC_INTERVAL |-> UNSET,
      GITLAB_TOKEN |-> UNSET, QUIET_HOURS_START |-> NULL, QUIET_HOURS_END |-> NULL],
     [ALLOWED_CHAT_IDS |-> <<"1", "x", "2">>, GITLAB_SYNC_INTERVAL |-> "abc",
      GITLAB_TOKEN |-> UNSET, QUIET_HOURS_START |-> NULL, QUIET_HOURS_END |-> NULL],
     [ALLOWED_CHAT_IDS |-> <<>>, GITLAB_SYNC_INTERVAL |-> "5", GITLAB_TOKEN |-> UNSET,
      QUIET_HOURS_START |-> NULL, QUIET_HOURS_END |-> NULL]}
\* QUIET_HOURS_* are NULL when not in the environment, else Some(text) with the
\* text kept character by character: here 00:00 to 00:01
SyncEnv ==
    [ALLOWED_CHAT_IDS |-> <<"1", "x", "2">>, GITLAB_SYNC_INTERVAL |-> "5",
     GITLAB_TOKEN |-> "glpat",
     QUIET_HOURS_START |-> Some(<<"0", "0", ":", "0", "0">>),
     QUIET_HOURS_END |-> Some(<<"0", "0", ":", "0", "1">>)]
IntText == [s \in {"1", "2", "5", "10"} |->
              CASE s = "1" -> 1 [] s = "2" -> 2 [] s = "5" -> 5 [] s = "10" -> 10]

VARIABLES
    now,        \* wall clock (datetime.now(TZ)), in whole ticks of one minute
    env,        \* os.environ: ALLOWED_CHAT_IDS tokens, GITLAB_SYNC_INTERVAL,
                \* GITLAB_TOKEN, QUIET_HOURS_START, QUIET_HOURS_END
    proc,       \* "boot" before post_init, "up" while polling, "dead" after a raise
    sched,      \* names of the repeating / daily jobs registered by setup_scheduler
    reminders,  \* table reminders: row id = position (AUTOINCREMENT)
    reviews,    \* table reviews: row id = position (AUTOINCREMENT)
    reviewers,  \* table reviewers: the usernames of its rows, in insertion order
    user_data,  \* context.user_data of the chat's user: [remind_h, remind_m], a missing key is NULL
    jobs,       \* job queue: outstanding run_once jobs [id, when, by]
    inflight,   \* execute_reminder_job callbacks that loaded a pending row
    handler,    \* the update handler in progress, suspended at an await (or NULL)
    loadpc,     \* load_custom_reminders task: "none", "task", "loaded", "done"
    loadSnap,   \* rows the loader read with get_active_reminders
    syncpc,     \* sync_gitlab_issues pass: "idle", "query", "apply"
    syncRem,    \* reminder_by_iid of the running pass
    syncRev,    \* review_by_iid of the running pass
    syncClosed, \* closed_iids of the running pass
    nextIid,    \* issue tracker: iid the next created issue gets
    closed,     \* issue tracker: iids of closed issues
    sent,       \* messages and tracker calls the last step attempted: [chat, kind, about, ok]
    last        \* the last step taken: [op, id]

vars == <<now, env, proc, sched, reminders, reviews, reviewers, user_data, jobs, inflight, handler,
          loadpc, loadSnap, syncpc, syncRem, syncRev, syncClosed,
          nextIid, closed, sent, last>>

\* ------------------------------------------------------------- database
\* database.py: rows as dicts; a missing row is NULL.
ExistingRemIds == 1..Len(reminders)
ExistingRevIds == 1..Len(reviews)

get_reminder_by_id(rs, reminder_id) ==
    IF reminder_id \in 1..Len(rs) THEN Some(rs[reminder_id]) ELSE NULL

\* a write of the whole row as the callback loaded it, the status included
update_next_remind_at_wholeRow(rs, reminder_id, next_at) ==
    [i \in 1..Len(rs) |->
        IF i = reminder_id
        THEN [rs[i] EXCEPT !.next_remind_at = next_at, !.status = "pending"]
        ELSE rs[i]]

\* UPDATE reminders SET next_remind_at = ? WHERE id = ?
update_next_remind_at(rs, reminder_id, next_at) ==
    [i \in 1..Len(rs) |->
        IF i = reminder_id THEN [rs[i] EXCEPT !.next_remind_at = next_at]
        ELSE rs[i]]

\* an update that puts a row already in the given status back to pending
update_reminder_status_reopens(rs, reminder_id, status) ==
    [i \in 1..Len(rs) |->
        IF i = reminder_id
        THEN [rs[i] EXCEPT !.status = IF rs[i].status = status THEN "pending" ELSE status]
        ELSE rs[i]]

\* UPDATE reminders SET status = ? WHERE id = ?   (no condition on the old status)
update_reminder_status(rs, reminder_id, status) ==
    [i \in 1..Len(rs) |->
        IF i = reminder_id THEN [rs[i] EXCEPT !.status = status]
        ELSE rs[i]]

\* cursor.rowcount > 0 of the two updates above
row_updated(rs, reminder_id) == reminder_id \in 1..Len(rs)

\* SELECT * FROM reminders WHERE status = 'pending' AND next_remind_at IS NOT NULL
get_active_reminders(rs) ==
    {i \in 1..Len(rs) : rs[i].status = "pending" /\ rs[i].next_remind_at # NULL}

\* a read of the pending reminders that leaves out those without a fire time
get_all_pending_reminders_timed(rs) ==
    {i \in 1..Len(rs) : rs[i].status = "pending" /\ rs[i].next_remind_at # NULL}

\* SELECT * FROM reminders WHERE status = 'pending'
get_all_pending_reminders(rs) ==
    {i \in 1..Len(rs) : rs[i].status = "pending"}

\* ---- table reviewers (username TEXT NOT NULL UNIQUE); a username is kept
\* character by character
\* str.lstrip("@"): every leading "@" removed
RECURSIVE lstrip_at(_)
lstrip_at(t) == IF t # <<>> /\ Head(t) = "@" THEN lstrip_at(Tail(t)) ELSE t

\* SELECT username FROM reviewers
get_all_reviewers(ws) == {ws[i] : i \in 1..Len(ws)}

\* an INSERT that no constraint stops
add_reviewer_unchecked(ws, username) == Append(ws, lstrip_at(username))

\* database.add_reviewer: the INSERT raises IntegrityError on a username that is
\* in the table (UNIQUE), and nothing is stored
add_reviewer(ws, username) ==
    IF lstrip_at(username) \in get_all_reviewers(ws) THEN ws
    ELSE Append(ws, lstrip_at(username))

\* its return value
reviewer_added(ws, username) == lstrip_at(username) \notin get_all_reviewers(ws)

\* database.remove_reviewer: DELETE FROM reviewers WHERE username = ?
remove_reviewer(ws, username) == SelectSeq(ws, LAMBDA w : w # lstrip_at(username))

\* its return value: cursor.rowcount > 0
reviewer_removed(ws, username) == lstrip_at(username) \in get_all_reviewers(ws)

\* INSERT INTO reminders (...): status takes the column default 'pending'
add_reminder(rs, iid, timing_type, interval, next_at) ==
    Append(rs, [status |-> "pending", timing_type |-> timing_type,
                interval_minutes |-> interval, next_remind_at |-> next_at,
                gitlab_issue_iid |-> iid])

\* SELECT * FROM reviews WHERE status = ?
get_reviews_by_status(vs, status) ==
    {i \in 1..Len(vs) : vs[i].status = status}

\* update_review_status reaching only the rows that are pending
update_review_status_pendingOnly(vs, sponsor_name, status) ==
    [i \in 1..Len(vs) |->
        IF vs[i].sponsor_name = sponsor_name /\ vs[i].status = "pending"
        THEN [vs[i] EXCEPT !.status = status]
        ELSE vs[i]]

\* UPDATE reviews SET status = ? WHERE sponsor_name = ? AND status != 'approved'
update_review_status(vs, sponsor_name, status) ==
    [i \in 1..Len(vs) |->
        IF vs[i].sponsor_name = sponsor_name /\ vs[i].status # "approved"
        THEN [vs[i] EXCEPT !.status = status]
        ELSE vs[i]]

\* SELECT * FROM reviews WHERE sponsor_name = ? ORDER BY created_at DESC LIMIT 1:
\* the ids the query can return.  created_at has a resolution of one second, so
\* among rows of one name created within the same second any may come first;
\* the model keeps no created_at and lets any row of the name be the one read.
get_review_by_name(vs, sponsor_name) ==
    {i \in 1..Len(vs) : vs[i].sponsor_name = sponsor_name}

\* cursor.rowcount > 0 of update_review_status
review_updated(vs, sponsor_name) ==
    \E i \in 1..Len(vs) : vs[i].sponsor_name = sponsor_name /\ vs[i].status # "approved"

\* database.get_review_by_id, imported by handlers/review.py: the row of that id
get_review_by_id(vs, review_id) ==
    IF review_id \in 1..Len(vs) THEN Some(vs[review_id]) ELSE NULL

\* an update by id that writes whatever the status of the row
update_review_status_by_id_anyStatus(vs, review_id, status) ==
    [i \in 1..Len(vs) |->
        IF i = review_id THEN [vs[i] EXCEPT !.status = status] ELSE vs[i]]

\* database.update_review_status_by_id, imported by handlers/review.py: the update
\* of one row; approval is terminal, so an approved row is left as it is
update_review_status_by_id(vs, review_id, status) ==
    [i \in 1..Len(vs) |->
        IF i = review_id /\ vs[i].status # "approved"
        THEN [vs[i] EXCEPT !.status = status]
        ELSE vs[i]]

\* its return value: whether a row was updated
review_updated_by_id(vs, review_id) ==
    review_id \in 1..Len(vs) /\ vs[review_id].status # "approved"

\* INSERT INTO reviews (...) with status 'pending'
add_review(vs, sponsor_name, iid) ==
    Append(vs, [sponsor_name |-> sponsor_name, status |-> "pending",
                gitlab_issue_iid |-> iid])

\* ---------------------------------------------------------- configuration
\* handlers/utils.py: split on ",", keep the tokens int() accepts
get_allowed_chat_ids(e) ==
    {IntText[e.ALLOWED_CHAT_IDS[k]] :
        k \in {n \in 1..Len(e.ALLOWED_CHAT_IDS) :
                  e.ALLOWED_CHAT_IDS[n] \in DOMAIN IntText}}


\* handlers/gitlab_client.py: create_issue and close_issue return None / False
\* at once when the project id or the token is not configured
gitlab_configured(e) == e.GITLAB_TOKEN # UNSET

\* int(os.getenv("GITLAB_SYNC_INTERVAL", "10")): no try/except around it
sync_interval_raises(e) ==
    LET text == IF e.GITLAB_SYNC_INTERVAL = UNSET THEN "10" ELSE e.GITLAB_SYNC_INTERVAL
    IN  text \notin DOMAIN IntText

\* -------------------------------------------------------------- scheduler
\* schedule_reminder_job without the test on a past one-off reminder
schedule_reminder_job_armsPast(q, reminder, nowv, by) ==
    IF reminder.next_remind_at = NULL THEN q
    ELSE q \cup {[id |-> reminder.id, when |-> Val(reminder.next_remind_at), by |-> by]}

\* scheduler.py schedule_reminder_job: run_once adds a job; it neither looks for
\* nor replaces a job of the same name.  `by` tells the Job objects apart.
schedule_reminder_job(q, reminder, nowv, by) ==
    IF reminder.next_remind_at = NULL THEN q
    ELSE IF Val(reminder.next_remind_at) < nowv /\ reminder.timing_type = "once" THEN q
    ELSE q \cup {[id |-> reminder.id, when |-> Val(reminder.next_remind_at), by |-> by]}

\* scheduler.py load_custom_reminders, after its read: one call per row read
load_custom_reminders(q, snap, nowv) ==
    q \cup UNION {schedule_reminder_job({}, r, nowv, "load") : r \in snap}

\* the dict of a row as the loader hands it to schedule_reminder_job
reminder_dict(rs, i) ==
    [id |-> i, next_remind_at |-> rs[i].next_remind_at, timing_type |-> rs[i].timing_type]

\* the callback going on whatever the status of the row
fire_proceeds_anyStatus(row) == row # NULL

\* scheduler.py execute_reminder_job, line 602: the callback goes on only for a
\* row that exists and is pending
fire_proceeds(row) == row # NULL /\ Val(row).status = "pending"

\* the callback leaving next_remind_at as it is
post_fire_keeps_next(reminder, nowv) == reminder.next_remind_at

\* scheduler.py execute_reminder_job, line 621: the value written to
\* next_remind_at after the sends, whatever the timing kind
post_fire_next_remind_at(reminder, nowv) == NULL

\* job_queue.get_jobs_by_name("remind_<id>") ... job.schedule_removal()
remove_jobs_by_name(q, reminder_id) == {j \in q : j.id # reminder_id}

\* scheduler.py setup_scheduler: the jobs registered before the first raise, and
\* whether the loader task was created
setup_scheduler(e) ==
    IF sync_interval_raises(e)
    THEN [raised |-> TRUE, loader |-> FALSE,
          names |-> {"pending_reminder", "need_fix_reminder", "daily_summary"}]
    ELSE [raised |-> FALSE, loader |-> TRUE,
          names |-> {"pending_reminder", "need_fix_reminder", "daily_summary",
                     "gitlab_sync"}]

\* main.py post_init: the scheduler is set up only with a non-empty chat list
post_init(e) ==
    IF get_allowed_chat_ids(e) # {} THEN setup_scheduler(e)
    ELSE [raised |-> FALSE, loader |-> FALSE, names |-> {}]

\* ----------------------------------------------------------- quiet hours
\* os.getenv(key, default)
getenv(e, key, default) == IF e[key] = NULL THEN default ELSE Val(e[key])

DigitChars == <<"0", "1", "2", "3", "4", "5", "6", "7", "8", "9">>
IsDigit(c) == \E d \in 1..Len(DigitChars) : DigitChars[d] = c
DigitVal(c) == (CHOOSE d \in 1..Len(DigitChars) : DigitChars[d] = c) - 1

\* str.strip(): leading and trailing blanks removed
RECURSIVE lstrip(_)
lstrip(t) == IF t # <<>> /\ Head(t) = " " THEN lstrip(Tail(t)) ELSE t
RECURSIVE rstrip(_)
rstrip(t) == IF t # <<>> /\ t[Len(t)] = " " THEN rstrip(SubSeq(t, 1, Len(t) - 1)) ELSE t
strip(t) == rstrip(lstrip(t))

\* str.split(":"): the parts between the colons, empty parts kept
RECURSIVE split(_)
split(t) ==
    IF \A k \in 1..Len(t) : t[k] # ":" THEN <<t>>
    ELSE LET k == CHOOSE c \in 1..Len(t) : t[c] = ":" /\ \A b \in 1..(c - 1) : t[b] # ":"
         IN  <<SubSeq(t, 1, k - 1)>> \o split(SubSeq(t, k + 1, Len(t)))

\* int(text): blanks around the digits allowed; NULL stands for ValueError
RECURSIVE DecimalValue(_)
DecimalValue(t) ==
    IF t = <<>> THEN 0 ELSE DecimalValue(SubSeq(t, 1, Len(t) - 1)) * 10 + DigitVal(t[Len(t)])
int(t) ==
    LET d == strip(t)
    IN  IF d # <<>> /\ \A k \in 1..Len(d) : IsDigit(d[k]) THEN Some(DecimalValue(d)) ELSE NULL

\* datetime.time(hour, minute) without its range test
time_unchecked(hour, minute) == Some(<<hour, minute>>)

\* datetime.time(hour, minute): ValueError (NULL) out of range
time(hour, minute) ==
    IF hour \in 0..23 /\ minute \in 0..59 THEN Some(<<hour, minute>>) ELSE NULL

\* scheduler.py _parse_time: NULL for the None of the except branch
_parse_time(time_str) ==
    LET parts == split(strip(time_str))
    IN  IF int(parts[1]) = NULL THEN NULL
        ELSE IF Len(parts) < 2 THEN NULL
        ELSE IF int(parts[2]) = NULL THEN NULL
        ELSE time(Val(int(parts[1])), Val(int(parts[2])))

\* order of datetime.time values
time_lt(a, b) == a[1] < b[1] \/ (a[1] = b[1] /\ a[2] < b[2])
time_le(a, b) == a = b \/ time_lt(a, b)

\* datetime.now(TZ).time(), to the minute
time_of(nowv) == <<(nowv \div 60) % 24, nowv % 60>>

\* a gate that never closes
is_quiet_hours_never(e, nowv) == FALSE

\* a window closed at its end
is_quiet_hours_closed(e, nowv) ==
    LET start_str == getenv(e, "QUIET_HOURS_START", <<>>)
        end_str == getenv(e, "QUIET_HOURS_END", <<>>)
        start == _parse_time(start_str)
        end == _parse_time(end_str)
        t == time_of(nowv)
    IN  IF start_str = <<>> \/ end_str = <<>> THEN FALSE
        ELSE IF start = NULL \/ end = NULL THEN FALSE
        ELSE IF time_le(Val(start), Val(end))
             THEN time_le(Val(start), t) /\ time_le(t, Val(end))
             ELSE time_le(Val(start), t) \/ time_le(t, Val(end))

\* scheduler.py is_quiet_hours
is_quiet_hours(e, nowv) ==
    LET start_str == getenv(e, "QUIET_HOURS_START", <<>>)
        end_str == getenv(e, "QUIET_HOURS_END", <<>>)
        start == _parse_time(start_str)
        end == _parse_time(end_str)
        t == time_of(nowv)
    IN  IF start_str = <<>> \/ end_str = <<>> THEN FALSE
        ELSE IF start = NULL \/ end = NULL THEN FALSE
        ELSE IF time_le(Val(start), Val(end))
             THEN time_le(Val(start), t) /\ time_lt(t, Val(end))
             ELSE time_le(Val(start), t) \/ time_lt(t, Val(end))

\* ------------------------------------------------------ inline date/time
\* datetime's proleptic Gregorian calendar; an instant is its count of whole
\* minutes since 0001-01-01 00:00 in Asia/Taipei (a zone with no clock changes)
is_leap(year) == (year % 4 = 0 /\ year % 100 # 0) \/ year % 400 = 0
days_in_month(year, month) ==
    IF month = 2 THEN (IF is_leap(year) THEN 29 ELSE 28)
    ELSE IF month \in {4, 6, 9, 11} THEN 30 ELSE 31
days_before_year(year) ==
    (year - 1) * 365 + (year - 1) \div 4 - (year - 1) \div 100 + (year - 1) \div 400
RECURSIVE days_before_month(_, _)
days_before_month(year, month) ==
    IF month = 1 THEN 0
    ELSE days_before_month(year, month - 1) + days_in_month(year, month - 1)

\* datetime(year, month, day, hour, minute, tzinfo=TZ): NULL stands for ValueError
datetime(year, month, day, hour, minute) ==
    IF /\ year \in 1..9999
       /\ month \in 1..12
       /\ day >= 1
       /\ day <= days_in_month(year, month)
       /\ hour \in 0..23
       /\ minute \in 0..59
    THEN Some(((days_before_year(year) + days_before_month(year, month) + day - 1) * 24
               + hour) * 60 + minute)
    ELSE NULL

\* now.year, now.month, now.day
date_of(nowv) ==
    LET days == nowv \div (24 * 60)
        year == CHOOSE y \in (days \div 366)..(days \div 365 + 1) :
                    days_before_year(y) <= days /\ days < days_before_year(y + 1)
        month == CHOOSE m \in 1..12 :
                    /\ days_before_month(year, m) <= days - days_before_year(year)
                    /\ days - days_before_year(year)
                           < days_before_month(year, m) + days_in_month(year, m)
    IN  [year |-> year, month |-> month,
         day |-> days - days_before_year(year) - days_before_month(year, month) + 1]

\* dt < now: dt is on a whole minute, now is nowv plus seconds when late
before(dt, nowv, late) == dt < nowv \/ (dt = nowv /\ late)

\* the four regular expressions of patterns, in the order of the list; each is
\* a sequence of elements: "d" a run of lo..hi digits (a group), "c" one
\* character of chars, "s" one or more blanks
Digits(lo, hi) == [kind |-> "d", lo |-> lo, hi |-> hi]
OneOf(chars) == [kind |-> "c", chars |-> chars]
Blanks == [kind |-> "s"]
patterns ==
    <<  <<Digits(4, 4), OneOf({"/", "-"}), Digits(1, 2), OneOf({"/", "-"}), Digits(1, 2),
          Blanks, Digits(1, 2), OneOf({":"}), Digits(2, 2)>>,
        <<Digits(1, 2), OneOf({"/", "-"}), Digits(1, 2),
          Blanks, Digits(1, 2), OneOf({":"}), Digits(2, 2)>>,
        <<Digits(1, 2), OneOf({"/", "-"}), Digits(1, 2)>>,
        <<Digits(1, 2), OneOf({":"}), Digits(2, 2)>>  >>

\* the ways pattern pat matches the whole of u: the set of its group lists
RECURSIVE fullmatch(_, _)
fullmatch(pat, u) ==
    IF pat = <<>> THEN (IF u = <<>> THEN {<<>>} ELSE {})
    ELSE LET e == Head(pat)
             rest(n) == SubSeq(u, n + 1, Len(u))
         IN  IF e.kind = "d"
             THEN UNION {IF n <= Len(u) /\ \A k \in 1..n : IsDigit(u[k])
                         THEN {<<SubSeq(u, 1, n)>> \o g : g \in fullmatch(Tail(pat), rest(n))}
                         ELSE {} : n \in e.lo..e.hi}
             ELSE IF e.kind = "c"
             THEN (IF u # <<>> /\ Head(u) \in e.chars THEN fullmatch(Tail(pat), Tail(u))
                   ELSE {})
             ELSE UNION {IF \A k \in 1..n : u[k] = " "
                         THEN fullmatch(Tail(pat), rest(n))
                         ELSE {} : n \in 1..Len(u)}

\* re.search(pattern + "$", s): the leftmost start from which the pattern
\* matches up to the end of s, with the groups; NULL when there is none
search(pat, s) ==
    LET starts == {k \in 1..Len(s) : fullmatch(pat, SubSeq(s, k, Len(s))) # {}}
    IN  IF starts = {} THEN NULL
        ELSE LET start == CHOOSE k \in starts : \A o \in starts : k <= o
             IN  Some([start |-> start,
                       group |-> CHOOSE g \in fullmatch(pat, SubSeq(s, start, Len(s))) : TRUE])

\* the builder lambda of pattern p
builder(p, m, nowv) ==
    LET n(k) == Val(int(m.group[k]))
        today == date_of(nowv)
    IN  IF p = 1 THEN datetime(n(1), n(2), n(3), n(4), n(5))
        ELSE IF p = 2 THEN datetime(today.year, n(1), n(2), n(3), n(4))
        ELSE IF p = 3 THEN datetime(today.year, n(1), n(2), 9, 0)
        ELSE datetime(today.year, today.month, today.day, n(1), n(2))

\* a parser that never moves a passed clock time to the next day
roll_day_never(p, dt, nowv, late) == dt

\* lines 160-162: a clock time already passed today becomes tomorrow's
roll_day(p, dt, nowv, late) ==
    IF before(dt, nowv, late) /\ p = Len(patterns) THEN dt + 24 * 60 ELSE dt

\* a parser that never moves a passed month/day to the next year
roll_year_never(p, m, dt, nowv, late) == Some(dt)

\* lines 163-165: a passed month/day becomes next year's; NULL stands for the
\* ValueError of replace (29 February)
roll_year(p, m, dt, nowv, late) ==
    IF before(dt, nowv, late) /\ p = 3
    THEN datetime(date_of(nowv).year + 1, Val(int(m.group[1])), Val(int(m.group[2])), 9, 0)
    ELSE Some(dt)

\* one turn of the loop over patterns, from pattern p on: the pattern's result
\* when it matches, builds and leaves content, the later patterns' otherwise
RECURSIVE parse_from(_, _, _, _)
parse_from(p, text, nowv, late) ==
    IF p > Len(patterns) THEN [dt |-> NULL, content |-> text, pattern |-> 0]
    ELSE LET stripped == rstrip(text)
             match == search(patterns[p], stripped)
             later == parse_from(p + 1, text, nowv, late)
         IN  IF match = NULL THEN later
             ELSE IF builder(p, Val(match), nowv) = NULL THEN later
             ELSE LET dt == roll_day(p, Val(builder(p, Val(match), nowv)), nowv, late)
                      rolled == roll_year(p, Val(match), dt, nowv, late)
                      content == rstrip(SubSeq(stripped, 1, Val(match).start - 1))
                  IN  IF rolled = NULL THEN later
                      ELSE IF content # <<>>
                      THEN [dt |-> rolled, content |-> content, pattern |-> p]
                      ELSE later

\* a parser that knows the clock-only pattern alone
parse_clock_only(text, nowv, late) == parse_from(Len(patterns), text, nowv, late)

\* handlers/reminder.py _parse_inline_datetime; pattern is the place in
\* patterns of the one that gave the result, 0 for (None, text)
_parse_inline_datetime(text, nowv, late) == parse_from(1, text, nowv, late)

\* -------------------------------------------------------------- messages
\* a loop over the chats that ends at the first send that raises
Deliveries_untilFailure(chats, kind, about, failed) ==
    {[chat |-> c, kind |-> kind, about |-> about, ok |-> (c \notin failed)] :
        c \in IF failed = {} THEN chats ELSE failed}

Deliveries(chats, kind, about, failed) ==
    {[chat |-> c, kind |-> kind, about |-> about, ok |-> (c \notin failed)] : c \in chats}

\* scheduler.py notify_submitter_approved / notify_submitter_need_fix: one message
\* to the chat the update came from
submitter_notice(kind, review_id) ==
    {[chat |-> "origin", kind |-> kind, about |-> {<<"review", review_id>>}, ok |-> TRUE]}

Step(op, id) == last' = [op |-> op, id |-> id]

\* ------------------------------------------------------------------ Init
SeedRows ==
    {[status |-> "pending", timing_type |-> "periodic", interval_minutes |-> Some(n),
      next_remind_at |-> Some(t), gitlab_issue_iid |-> iid] :
        n \in 1..MaxInterval, t \in Times, iid \in {NULL}}

Init ==
    /\ now = 0
    /\ env \in Envs
    /\ proc = "boot"
    /\ sched = {}
    /\ reminders \in {<<>>} \cup {<<r>> : r \in SeedRows}
    /\ reviews = <<>>
    /\ jobs = {}
    /\ inflight = {}
    /\ handler = NULL
    /\ loadpc = "none"
    /\ loadSnap = {}
    /\ syncpc = "idle"
    /\ syncRem = {}
    /\ syncRev = {}
    /\ syncClosed = {}
    /\ nextIid = 1
    /\ closed = {}
    /\ sent = {}
    /\ reviewers = <<>>
    /\ user_data = NoUserData
    /\ last = [op |-> "init", id |-> 0]

\* --------------------------------------------------------------- process
\* main.py post_init at process start; a raise in it ends the process
PostInit ==
    /\ proc = "boot"
    /\ LET r == post_init(env)
       IN  /\ proc' = IF r.raised THEN "dead" ELSE "up"
           /\ sched' = r.names
           /\ loadpc' = IF r.loader THEN "task" ELSE "none"
    /\ sent' = {}
    /\ Step("post_init", 0)
    /\ UNCHANGED <<user_data, reviewers, now, env, reminders, reviews, jobs, inflight, handler,
                   loadSnap, syncpc, syncRem, syncRev, syncClosed, nextIid, closed>>

\* the process ends (crash, redeploy) and is started again: the store and the
\* tracker persist, everything held in memory is gone
Restart ==
    /\ proc \in {"up", "dead"}
    /\ proc' = "boot"
    /\ sched' = {}
    /\ jobs' = {}
    /\ inflight' = {}
    /\ handler' = NULL
    /\ loadpc' = "none"
    /\ loadSnap' = {}
    /\ syncpc' = "idle"
    /\ syncRem' = {}
    /\ syncRev' = {}
    /\ syncClosed' = {}
    /\ sent' = {}
    /\ user_data' = NoUserData
    /\ Step("restart", 0)
    /\ UNCHANGED <<reviewers, now, env, reminders, reviews, nextIid, closed>>

Tick ==
    /\ now < MaxTime
    /\ now' = now + 1
    /\ sent' = {}
    /\ Step("tick", 0)
    /\ UNCHANGED <<user_data, reviewers, env, proc, sched, reminders, reviews, jobs, inflight, handler, loadpc, loadSnap, syncpc, syncRem, syncRev, syncClosed,
                   nextIid, closed>>

\* ---------------------------------------------------------------- loader
\* load_custom_reminders up to the return of get_active_reminders
LoadRead ==
    /\ proc = "up"
    /\ loadpc = "task"
    /\ loadSnap' = {reminder_dict(reminders, i) : i \in get_active_reminders(reminders)}
    /\ loadpc' = "loaded"
    /\ sent' = {}
    /\ Step("load_read", 0)
    /\ UNCHANGED <<user_data, reviewers, now, env, proc, sched, reminders, reviews, jobs, inflight, handler, syncpc, syncRem, syncRev, syncClosed, nextIid, closed>>

\* load_custom_reminders: the loop over the rows read
LoadSchedule ==
    /\ proc = "up"
    /\ loadpc = "loaded"
    /\ jobs' = load_custom_reminders(jobs, loadSnap, now)
    /\ loadpc' = "done"
    /\ sent' = {}
    /\ Step("load_schedule", 0)
    /\ UNCHANGED <<user_data, reviewers, now, env, proc, sched, reminders, reviews, inflight, handler, loadSnap, syncpc, syncRem, syncRev, syncClosed, nextIid,
                   closed>>

\* --------------------------------------------------------------- /remind
\* main.py builds the Application without concurrent_updates, so updates are
\* handled one at a time: at most one handler is in progress.  Job callbacks
\* and the loader task run beside it.
\* handlers/reminder.py _create_reminder_direct and remind_time_callback, from
\* create_issue to the return of add_reminder.  t is the resolved next_at;
\* issue_ok is whether create_issue returned an issue.
CreateAdd(t, issue_ok) ==
    /\ proc = "up"
    /\ handler = NULL
    /\ Len(reminders) < MaxRem
    /\ issue_ok => gitlab_configured(env)
    /\ LET iid == IF issue_ok THEN Some(nextIid) ELSE NULL
       IN  /\ reminders' = add_reminder(reminders, iid, "once", NULL, Some(t))
           /\ nextIid' = IF issue_ok THEN nextIid + 1 ELSE nextIid
           /\ handler' = Some([op |-> "remind", id |-> Len(reminders) + 1,
                                next_remind_at |-> Some(t), timing_type |-> "once"])
    /\ sent' = {}
    /\ Step("create_add", Len(reminders) + 1)
    /\ UNCHANGED <<user_data, reviewers, now, env, proc, sched, reviews, jobs, inflight, loadpc,
                   loadSnap, syncpc, syncRem, syncRev, syncClosed, closed>>

\* str.split(None, 1): the first word, and the text after the blanks behind it
first_word(t) ==
    IF \A k \in 1..Len(t) : t[k] # " " THEN t
    ELSE SubSeq(t, 1, (CHOOSE c \in 1..Len(t) : t[c] = " " /\ \A b \in 1..(c - 1) : t[b] # " ") - 1)
rest_words(t) == lstrip(SubSeq(t, Len(first_word(t)) + 1, Len(t)))

\* handlers/reminder.py remind_command, lines 215-257: the text the parser is
\* given; NULL for the two replies about the format
raw_content(args) ==
    IF args = <<>> THEN NULL
    ELSE IF Head(first_word(args)) = "@"
    THEN (IF rest_words(args) = <<>> THEN NULL ELSE Some(rest_words(args)))
    ELSE Some(args)

\* handlers/reminder.py remind_command with _create_reminder_direct up to the
\* return of add_reminder.  args is the text after the command, stripped by
\* extract_command_args; late is whether the clock is past the whole minute;
\* issue_ok is whether create_issue returned an issue.  Without a parsed time
\* the handler only shows the day picker.
RemindCommand(args, late, issue_ok) ==
    /\ proc = "up"
    /\ handler = NULL
    /\ LET raw == raw_content(args)
           parsed == _parse_inline_datetime(Val(raw), now, late)
           iid == IF issue_ok THEN Some(nextIid) ELSE NULL
       IN  IF raw = NULL
           THEN /\ ~issue_ok
                /\ Step("remind_usage", args)
                /\ UNCHANGED <<reminders, nextIid, handler>>
           ELSE IF parsed.dt = NULL
           THEN /\ ~issue_ok
                /\ Step("remind_picker", args)
                /\ UNCHANGED <<reminders, nextIid, handler>>
           ELSE /\ Len(reminders) < MaxRem
                /\ issue_ok => gitlab_configured(env)
                /\ reminders' = add_reminder(reminders, iid, "once", NULL, parsed.dt)
                /\ nextIid' = IF issue_ok THEN nextIid + 1 ELSE nextIid
                /\ handler' = Some([op |-> "remind", id |-> Len(reminders) + 1,
                                     next_remind_at |-> parsed.dt, timing_type |-> "once"])
                /\ Step("remind_direct", args)
    /\ sent' = {}
    /\ UNCHANGED <<user_data, reviewers, now, env, proc, sched, reviews, jobs, inflight, loadpc,
                   loadSnap, syncpc, syncRem, syncRev, syncClosed, closed>>

\* the same handlers, after add_reminder: schedule_reminder_job with their own dict
CreateSchedule ==
    /\ proc = "up"
    /\ handler # NULL
    /\ Val(handler).op = "remind"
    /\ jobs' = schedule_reminder_job(jobs, Val(handler), now, "create")
    /\ handler' = NULL
    /\ sent' = {}
    /\ Step("create_schedule", Val(handler).id)
    /\ UNCHANGED <<user_data, reviewers, now, env, proc, sched, reminders, reviews, inflight, loadpc,
                   loadSnap, syncpc, syncRem, syncRev, syncClosed, nextIid, closed>>

\* ------------------------------------------------------------ timer fire
\* The job queue runs a run_once job once its run time is reached and drops it;
\* execute_reminder_job then reads the row again (lines 599-603).
FireStart(j) ==
    /\ proc = "up"
    /\ j \in jobs
    /\ j.when <= now
    /\ jobs' = jobs \ {j}
    /\ LET row == get_reminder_by_id(reminders, j.id)
       IN  IF fire_proceeds(row)
           THEN inflight' = inflight \cup {[id |-> j.id, by |-> j.by]}
           ELSE inflight' = inflight
    /\ Step("fire", j.id)
    /\ sent' = {}
    /\ UNCHANGED <<user_data, reviewers, now, env, proc, sched, reminders, reviews, handler, loadpc,
                   loadSnap, syncpc, syncRem, syncRev, syncClosed, nextIid, closed>>

\* execute_reminder_job lines 605-621: one send per chat of ALLOWED_CHAT_IDS, each
\* in its own try/except (failed: the chats whose send raised), then the write
FireFinish(f, failed) ==
    /\ proc = "up"
    /\ f \in inflight
    /\ failed \subseteq get_allowed_chat_ids(env)
    /\ sent' = Deliveries(get_allowed_chat_ids(env), "remind", {<<"reminder", f.id>>}, failed)
    /\ reminders' = update_next_remind_at(reminders, f.id,
                        post_fire_next_remind_at(reminders[f.id], now))
    /\ inflight' = inflight \ {f}
    /\ Step("fire_finish", f.id)
    /\ UNCHANGED <<user_data, reviewers, now, env, proc, sched, reviews, jobs, handler, loadpc,
                   loadSnap, syncpc, syncRem, syncRev, syncClosed, nextIid, closed>>

\* ------------------------------------------------------------- mark done
\* handlers/reminder.py remind_done_act_callback lines 559-562: the id comes from
\* the button pressed (a stale button names any id); read, then update the status
MarkDoneStart(reminder_id) ==
    /\ proc = "up"
    /\ handler = NULL
    /\ LET reminder == get_reminder_by_id(reminders, reminder_id)
       IN  IF reminder = NULL
           THEN /\ UNCHANGED <<reminders, handler>>
                /\ Step("done_missing", reminder_id)
           ELSE /\ reminders' = update_reminder_status(reminders, reminder_id, "done")
                /\ IF row_updated(reminders, reminder_id)
                   THEN handler' = Some([op |-> "remind_done", id |-> reminder_id,
                                         was |-> Val(reminder).status,
                                         gitlab_issue_iid |-> Val(reminder).gitlab_issue_iid])
                   ELSE handler' = NULL
                /\ Step("done_update", reminder_id)
    /\ sent' = {}
    /\ UNCHANGED <<user_data, reviewers, now, env, proc, sched, reviews, jobs, inflight, loadpc,
                   loadSnap, syncpc, syncRem, syncRev, syncClosed, nextIid, closed>>

\* a handler that never asks the tracker to close anything
close_requests_none(gitlab_issue_iid, close_ok) == {}

\* remind_done_act_callback lines 563-565: one close_issue call for the row's
\* issue, when it has one; ok is whether the tracker closed it (a False return
\* and a raise both end there)
close_requests(gitlab_issue_iid, close_ok) ==
    IF gitlab_issue_iid = NULL THEN {}
    ELSE {[chat |-> "gitlab", kind |-> "close_issue",
           about |-> {<<"issue", Val(gitlab_issue_iid)>>}, ok |-> close_ok]}

\* remind_done_act_callback lines 563-568: close_issue (close_ok: the tracker
\* accepted it), then the removal of every job named remind_<id>
MarkDoneFinish(close_ok) ==
    /\ proc = "up"
    /\ close_ok => gitlab_configured(env)
    /\ handler # NULL
    /\ Val(handler).op = "remind_done"
    /\ closed' = IF Val(handler).gitlab_issue_iid # NULL /\ close_ok
                 THEN closed \cup {Val(Val(handler).gitlab_issue_iid)} ELSE closed
    /\ jobs' = remove_jobs_by_name(jobs, Val(handler).id)
    /\ handler' = NULL
    /\ sent' = close_requests(Val(handler).gitlab_issue_iid, close_ok)
    /\ Step("done_finish", Val(handler).id)
    /\ UNCHANGED <<user_data, reviewers, now, env, proc, sched, reminders, reviews, inflight, loadpc,
                   loadSnap, syncpc, syncRem, syncRev, syncClosed, nextIid>>

\* ---------------------------------------------------------- issue tracker

\* gitlab_client.get_issues_by_iids(iids): the state of each issue asked for;
\* nothing when the request fails
get_issues_by_iids(iids, cl, ok) ==
    IF ok THEN {[iid |-> i, state |-> IF i \in cl THEN "closed" ELSE "opened"] : i \in iids}
    ELSE {}

\* somebody closes an issue in the tracker
ExternalClose(i) ==
    /\ i \in 1..(nextIid - 1)
    /\ i \notin closed
    /\ closed' = closed \cup {i}
    /\ sent' = {}
    /\ Step("external_close", i)
    /\ UNCHANGED <<user_data, reviewers, now, env, proc, sched, reminders, reviews, jobs, inflight, handler, loadpc, loadSnap, syncpc, syncRem, syncRev, syncClosed,
                   nextIid>>

\* ------------------------------------------------------------- sync pass
\* a dict built only from the reminders that still have a fire time
reminder_by_iid_armedOnly(rs) ==
    {[iid |-> Val(rs[i].gitlab_issue_iid), id |-> i] :
        i \in {k \in get_active_reminders(rs) : rs[k].gitlab_issue_iid # NULL}}

\* sync_gitlab_issues lines 411-416: a dict keyed by int(iid); a later row of the
\* list (ORDER BY created_at DESC, so an older row) replaces an earlier one
reminder_by_iid(rs) ==
    LET rows == {i \in get_all_pending_reminders(rs) : rs[i].gitlab_issue_iid # NULL}
    IN  {[iid |-> Val(rs[i].gitlab_issue_iid), id |-> i] :
            i \in {k \in rows : \A o \in rows :
                      rs[o].gitlab_issue_iid = rs[k].gitlab_issue_iid => k <= o}}

\* lines 418-422: pending_reviews + need_fix_reviews, same dict rule
review_by_iid(vs) ==
    LET pend == {i \in get_reviews_by_status(vs, "pending") : vs[i].gitlab_issue_iid # NULL}
        fix == {i \in get_reviews_by_status(vs, "need_fix") : vs[i].gitlab_issue_iid # NULL}
        Same(a, b) == vs[a].gitlab_issue_iid = vs[b].gitlab_issue_iid
        Kept(k) == IF k \in fix THEN \A o \in fix : Same(o, k) => k <= o
                   ELSE /\ \A o \in fix : ~Same(o, k)
                        /\ \A o \in pend : Same(o, k) => k <= o
    IN  {[iid |-> Val(vs[i].gitlab_issue_iid), id |-> i,
          sponsor_name |-> vs[i].sponsor_name] : i \in {k \in pend \cup fix : Kept(k)}}

\* a pass that always has an id to ask for
all_iids_phantom(rmap, vmap) == {e.iid : e \in rmap} \cup {e.iid : e \in vmap} \cup {0}

\* line 424
all_iids(rmap, vmap) == {e.iid : e \in rmap} \cup {e.iid : e \in vmap}

\* a lookup that returned nothing read as every issue closed
closed_iids_presumed(issues) ==
    IF issues = {} THEN Iids
    ELSE {issue.iid : issue \in {x \in issues : x.state = "closed"}}

\* line 431
closed_iids(issues) == {issue.iid : issue \in {x \in issues : x.state = "closed"}}

\* a pass that leaves the reminders as they are
sync_reminders_none(rs, rmap, cl) == rs

\* lines 441-448: the reminders the pass sets to done
sync_reminders(rs, rmap, cl) ==
    LET hit == {e.id : e \in {x \in rmap : x.iid \in cl}}
    IN  [i \in 1..Len(rs) |->
            IF i \in hit THEN update_reminder_status(rs, i, "done")[i] ELSE rs[i]]

\* lines 450-457: update_review_status(sponsor_name, APPROVED) per closed entry
sync_reviews(vs, vmap, cl) ==
    LET names == {e.sponsor_name : e \in {x \in vmap : x.iid \in cl}}
    IN  [i \in 1..Len(vs) |->
            IF vs[i].sponsor_name \in names
            THEN update_review_status(vs, vs[i].sponsor_name, "approved")[i]
            ELSE vs[i]]

\* lines 447 and 456: one line per closed entry of either dict
notify_lines(rmap, vmap, cl) ==
    {<<"reminder", e.id>> : e \in {x \in rmap : x.iid \in cl}}
    \cup {<<"review", e.id>> : e \in {x \in vmap : x.iid \in cl}}

\* _gitlab_sync_job: the repeating job; lines 406-427 of the pass
SyncCollect ==
    /\ proc = "up"
    /\ "gitlab_sync" \in sched
    /\ syncpc = "idle"
    /\ LET rmap == reminder_by_iid(reminders)
           vmap == review_by_iid(reviews)
       IN  IF all_iids(rmap, vmap) = {}
           THEN /\ UNCHANGED <<syncpc, syncRem, syncRev>>
                /\ Step("sync_none", 0)
           ELSE /\ syncpc' = "query"
                /\ syncRem' = rmap
                /\ syncRev' = vmap
                /\ Step("sync_collect", 0)
    /\ sent' = {}
    /\ UNCHANGED <<user_data, reviewers, now, env, proc, sched, reminders, reviews, jobs, inflight, handler, loadpc, loadSnap, syncClosed, nextIid, closed>>

\* lines 429-435: the bulk lookup (ok: the request succeeded)
SyncLookup(ok) ==
    /\ proc = "up"
    /\ ok => gitlab_configured(env)
    /\ syncpc = "query"
    /\ LET cl == closed_iids(get_issues_by_iids(all_iids(syncRem, syncRev), closed, ok))
       IN  /\ IF cl = {}
              THEN /\ syncpc' = "idle"
                   /\ syncRem' = {}
                   /\ syncRev' = {}
                   /\ syncClosed' = {}
              ELSE /\ syncpc' = "apply"
                   /\ syncClosed' = cl
                   /\ UNCHANGED <<syncRem, syncRev>>
           /\ Step(IF ~ok THEN "sync_failed"
                   ELSE IF cl = {} THEN "sync_open" ELSE "sync_lookup", 0)
    /\ sent' = {}
    /\ UNCHANGED <<user_data, reviewers, now, env, proc, sched, reminders, reviews, jobs, inflight, handler, loadpc, loadSnap, nextIid, closed>>

\* lines 437-457: the updates of the rows whose issue is closed
SyncApply ==
    /\ proc = "up"
    /\ syncpc = "apply"
    /\ reminders' = sync_reminders(reminders, syncRem, syncClosed)
    /\ reviews' = sync_reviews(reviews, syncRev, syncClosed)
    /\ syncpc' = "notify"
    /\ sent' = {}
    /\ Step("sync_apply", 0)
    /\ UNCHANGED <<user_data, reviewers, now, env, proc, sched, jobs, inflight, handler, loadpc,
                   loadSnap, syncRem, syncRev, syncClosed, nextIid, closed>>

\* lines 459-468: one message per chat (failed: the sends that raised); the pass
\* is over
SyncNotify(failed) ==
    /\ proc = "up"
    /\ syncpc = "notify"
    /\ failed \subseteq get_allowed_chat_ids(env)
    /\ LET lines == notify_lines(syncRem, syncRev, syncClosed)
       IN  sent' = IF lines # {}
                   THEN Deliveries(get_allowed_chat_ids(env), "sync", lines, failed)
                   ELSE {}
    /\ syncpc' = "idle"
    /\ Step("sync_done", 0)
    /\ UNCHANGED <<user_data, reviewers, now, env, proc, sched, reminders, reviews, jobs, inflight, handler,
                   loadpc, loadSnap, syncRem, syncRev, syncClosed, nextIid, closed>>

\* ------------------------------------------------------------ reviewers
\* handlers/reviewer.py reviewer_add_command: context.args[0] without its leading
\* "@", add_reviewer, and the reply that tells which way it went
ReviewerAdd(arg) ==
    /\ proc = "up"
    /\ handler = NULL
    /\ LET username == lstrip_at(arg)
       IN  /\ reviewers' = add_reviewer(reviewers, username)
           /\ Step(IF reviewer_added(reviewers, username)
                   THEN "reviewer_added" ELSE "reviewer_exists", arg)
    /\ sent' = {}
    /\ UNCHANGED <<user_data, now, env, proc, sched, reminders, reviews, jobs, inflight, handler,
                   loadpc, loadSnap, syncpc, syncRem, syncRev, syncClosed, nextIid,
                   closed>>

\* handlers/reviewer.py reviewer_remove_command
ReviewerRemove(arg) ==
    /\ proc = "up"
    /\ handler = NULL
    /\ LET username == lstrip_at(arg)
       IN  /\ reviewers' = remove_reviewer(reviewers, username)
           /\ Step(IF reviewer_removed(reviewers, username)
                   THEN "reviewer_removed" ELSE "reviewer_missing", arg)
    /\ sent' = {}
    /\ UNCHANGED <<user_data, now, env, proc, sched, reminders, reviews, jobs, inflight, handler,
                   loadpc, loadSnap, syncpc, syncRem, syncRev, syncClosed, nextIid,
                   closed>>

\* ------------------------------------------------------- review reminders
\* scheduler.py remind_pending_reviews -> send_pending_review_notification
RemindPending(failed) ==
    /\ proc = "up"
    /\ "pending_reminder" \in sched
    /\ failed \subseteq get_allowed_chat_ids(env)
    /\ LET pending == get_reviews_by_status(reviews, "pending")
       IN  IF is_quiet_hours(env, now)
           THEN /\ sent' = {}
                /\ Step("remind_pending_quiet", 0)
           ELSE /\ sent' = IF pending # {} /\ get_all_reviewers(reviewers) # {}
                           THEN Deliveries(get_allowed_chat_ids(env), "pending_reviews",
                                           {<<"review", i>> : i \in pending}, failed)
                           ELSE {}
                /\ Step("remind_pending", 0)
    /\ UNCHANGED <<user_data, reviewers, now, env, proc, sched, reminders, reviews, jobs, inflight, handler,
                   loadpc, loadSnap, syncpc, syncRem, syncRev, syncClosed, nextIid,
                   closed>>

\* scheduler.py remind_need_fix_reviews -> send_need_fix_notification
RemindNeedFix(failed) ==
    /\ proc = "up"
    /\ "need_fix_reminder" \in sched
    /\ failed \subseteq get_allowed_chat_ids(env)
    /\ LET need_fix == get_reviews_by_status(reviews, "need_fix")
       IN  IF is_quiet_hours(env, now)
           THEN /\ sent' = {}
                /\ Step("remind_need_fix_quiet", 0)
           ELSE /\ sent' = IF need_fix # {}
                           THEN Deliveries(get_allowed_chat_ids(env), "need_fix_reviews",
                                           {<<"review", i>> : i \in need_fix}, failed)
                           ELSE {}
                /\ Step("remind_need_fix", 0)
    /\ UNCHANGED <<user_data, reviewers, now, env, proc, sched, reminders, reviews, jobs, inflight, handler,
                   loadpc, loadSnap, syncpc, syncRem, syncRev, syncClosed, nextIid,
                   closed>>

\* --------------------------------------------------------------- reviews
\* handlers/review.py review_command, one line of the message: create_issue
\* (issue_ok: it returned an issue), then add_review
ReviewAdd(sponsor_name, issue_ok) ==
    /\ proc = "up"
    /\ handler = NULL
    /\ Len(reviews) < MaxRev
    /\ issue_ok => gitlab_configured(env)
    /\ reviews' = add_review(reviews, sponsor_name,
                             IF issue_ok THEN Some(nextIid) ELSE NULL)
    /\ nextIid' = IF issue_ok THEN nextIid + 1 ELSE nextIid
    /\ sent' = {}
    /\ Step("review_add", Len(reviews) + 1)
    /\ UNCHANGED <<user_data, reviewers, now, env, proc, sched, reminders, jobs, inflight, handler, loadpc,
                   loadSnap, syncpc, syncRem, syncRev, syncClosed, closed>>

\* the tests of _do_approve letting an approved row through
approve_gate_open(review) ==
    IF review = NULL THEN "missing" ELSE "read"

\* _do_approve lines 280-298: what the read of the row decides
approve_gate(review) ==
    IF review = NULL THEN "missing"
    ELSE IF Val(review).status = "approved" THEN "refused" ELSE "read"

\* the tests of _do_need_fix going on to the update without a row
need_fix_gate_blind(review) ==
    IF review # NULL /\ Val(review).status = "approved" THEN "refused" ELSE "read"

\* _do_need_fix lines 405-425
need_fix_gate(review) ==
    IF review = NULL THEN "missing"
    ELSE IF Val(review).status = "approved" THEN "refused" ELSE "read"

\* the tests of again_callback letting every row through
again_gate_open(review) ==
    IF review = NULL THEN "missing" ELSE "read"

\* again_callback lines 571-584
again_gate(review) ==
    IF review = NULL THEN "missing"
    ELSE IF Val(review).status # "need_fix" THEN "refused" ELSE "read"

\* approve_callback -> _do_approve(review_id=...), up to the update
ApproveStart(review_id) ==
    /\ proc = "up"
    /\ handler = NULL
    /\ LET review == get_review_by_id(reviews, review_id)
           gate == approve_gate(review)
       IN  /\ handler' = IF gate = "read"
                         THEN Some([op |-> "approve", id |-> review_id,
                                    gitlab_issue_iid |-> Val(review).gitlab_issue_iid])
                         ELSE NULL
           /\ Step("approve_" \o gate, review_id)
    /\ sent' = {}
    /\ UNCHANGED <<user_data, reviewers, now, env, proc, sched, reminders, reviews, jobs, inflight, loadpc,
                   loadSnap, syncpc, syncRem, syncRev, syncClosed, nextIid, closed>>

\* _do_approve lines 300-321: the update by id, then close_issue when it updated
\* a row that has an issue (close_ok: the tracker accepted it)
ApproveFinish(close_ok) ==
    /\ proc = "up"
    /\ close_ok => gitlab_configured(env)
    /\ handler # NULL
    /\ Val(handler).op = "approve"
    /\ reviews' = update_review_status_by_id(reviews, Val(handler).id, "approved")
    /\ closed' = IF /\ review_updated_by_id(reviews, Val(handler).id)
                    /\ Val(handler).gitlab_issue_iid # NULL
                    /\ close_ok
                 THEN closed \cup {Val(Val(handler).gitlab_issue_iid)} ELSE closed
    /\ handler' = NULL
    /\ sent' = IF review_updated_by_id(reviews, Val(handler).id)
               THEN submitter_notice("approved", Val(handler).id) ELSE {}
    /\ Step("approve_update", Val(handler).id)
    /\ UNCHANGED <<user_data, reviewers, now, env, proc, sched, reminders, jobs, inflight, loadpc,
                   loadSnap, syncpc, syncRem, syncRev, syncClosed, nextIid>>

\* review_approve_command with a name -> _do_approve(sponsor_name), lines 285-298:
\* pick is the row get_review_by_name returns (0: no row of that name)
ApproveNameStart(sponsor_name, pick) ==
    /\ proc = "up"
    /\ handler = NULL
    /\ IF get_review_by_name(reviews, sponsor_name) = {} THEN pick = 0
       ELSE pick \in get_review_by_name(reviews, sponsor_name)
    /\ LET review == IF pick = 0 THEN NULL ELSE Some(reviews[pick])
           gate == approve_gate(review)
       IN  /\ handler' = IF gate = "read"
                         THEN Some([op |-> "approve_name", id |-> pick,
                                    sponsor_name |-> sponsor_name,
                                    gitlab_issue_iid |-> Val(review).gitlab_issue_iid])
                         ELSE NULL
           /\ Step("approve_name_" \o gate, pick)
    /\ sent' = {}
    /\ UNCHANGED <<user_data, reviewers, now, env, proc, sched, reminders, reviews, jobs, inflight, loadpc,
                   loadSnap, syncpc, syncRem, syncRev, syncClosed, nextIid, closed>>

\* _do_approve lines 303-321: the update by name, then close_issue of the row read
\* and the notice to the submitter when the update reached a row
ApproveNameFinish(close_ok) ==
    /\ proc = "up"
    /\ close_ok => gitlab_configured(env)
    /\ handler # NULL
    /\ Val(handler).op = "approve_name"
    /\ reviews' = update_review_status(reviews, Val(handler).sponsor_name, "approved")
    /\ closed' = IF /\ review_updated(reviews, Val(handler).sponsor_name)
                    /\ Val(handler).gitlab_issue_iid # NULL
                    /\ close_ok
                 THEN closed \cup {Val(Val(handler).gitlab_issue_iid)} ELSE closed
    /\ handler' = NULL
    /\ sent' = IF review_updated(reviews, Val(handler).sponsor_name)
               THEN submitter_notice("approved", Val(handler).id) ELSE {}
    /\ Step("approve_name_update", Val(handler).id)
    /\ UNCHANGED <<user_data, reviewers, now, env, proc, sched, reminders, jobs, inflight, loadpc,
                   loadSnap, syncpc, syncRem, syncRev, syncClosed, nextIid>>

\* need_fix_callback -> _do_need_fix(review_id=...), up to the update
NeedFixStart(review_id) ==
    /\ proc = "up"
    /\ handler = NULL
    /\ LET gate == need_fix_gate(get_review_by_id(reviews, review_id))
       IN  /\ handler' = IF gate = "read"
                         THEN Some([op |-> "need_fix", id |-> review_id])
                         ELSE NULL
           /\ Step("need_fix_" \o gate, review_id)
    /\ sent' = {}
    /\ UNCHANGED <<user_data, reviewers, now, env, proc, sched, reminders, reviews, jobs, inflight, loadpc,
                   loadSnap, syncpc, syncRem, syncRev, syncClosed, nextIid, closed>>

\* _do_need_fix line 428: the update by id
NeedFixFinish ==
    /\ proc = "up"
    /\ handler # NULL
    /\ Val(handler).op = "need_fix"
    /\ reviews' = update_review_status_by_id(reviews, Val(handler).id, "need_fix")
    /\ handler' = NULL
    /\ sent' = {}
    /\ Step("need_fix_update", Val(handler).id)
    /\ UNCHANGED <<user_data, reviewers, now, env, proc, sched, reminders, jobs, inflight, loadpc,
                   loadSnap, syncpc, syncRem, syncRev, syncClosed, nextIid, closed>>

\* again_callback, up to the update
AgainStart(review_id) ==
    /\ proc = "up"
    /\ handler = NULL
    /\ LET gate == again_gate(get_review_by_id(reviews, review_id))
       IN  /\ handler' = IF gate = "read"
                         THEN Some([op |-> "again", id |-> review_id])
                         ELSE NULL
           /\ Step("again_" \o gate, review_id)
    /\ sent' = {}
    /\ UNCHANGED <<user_data, reviewers, now, env, proc, sched, reminders, reviews, jobs, inflight, loadpc,
                   loadSnap, syncpc, syncRem, syncRev, syncClosed, nextIid, closed>>

\* again_callback line 587: back to pending, by id
AgainFinish ==
    /\ proc = "up"
    /\ handler # NULL
    /\ Val(handler).op = "again"
    /\ reviews' = update_review_status_by_id(reviews, Val(handler).id, "pending")
    /\ handler' = NULL
    /\ sent' = {}
    /\ Step("again_update", Val(handler).id)
    /\ UNCHANGED <<user_data, reviewers, now, env, proc, sched, reminders, jobs, inflight, loadpc,
                   loadSnap, syncpc, syncRem, syncRev, syncClosed, nextIid, closed>>

\* ------------------------------------------------------------------ Next
\* The reminder life cycle with the issue tracker not configured: no row holds an
\* issue reference, so a sync pass finds nothing to ask.
Next ==
    \/ PostInit
    \/ Restart
    \/ Tick
    \/ LoadRead
    \/ LoadSchedule
    \/ \E t \in Times, issue_ok \in BOOLEAN : CreateAdd(t, issue_ok)
    \/ CreateSchedule
    \/ \E j \in jobs : FireStart(j)
    \/ \E f \in inflight, failed \in SUBSET get_allowed_chat_ids(env) : FireFinish(f, failed)
    \/ \E i \in RemIds : MarkDoneStart(i)
    \/ \E close_ok \in BOOLEAN : MarkDoneFinish(close_ok)
    \/ SyncCollect

Spec == Init /\ [][Next]_vars

\* The same program with the issue tracker configured, from the point where the
\* process has started on an empty store and its loader has run: rows get issue
\* references, issues get closed, the sync pass has work to do.
InitSync ==
    /\ now = 0
    /\ env = SyncEnv
    /\ proc = "up"
    /\ sched = post_init(SyncEnv).names
    /\ reminders = <<>>
    /\ reviews = <<>>
    /\ jobs = {}
    /\ inflight = {}
    /\ handler = NULL
    /\ loadpc = "done"
    /\ loadSnap = {}
    /\ syncpc = "idle"
    /\ syncRem = {}
    /\ syncRev = {}
    /\ syncClosed = {}
    /\ nextIid = 1
    /\ closed = {}
    /\ sent = {}
    /\ reviewers = <<>>
    /\ user_data = NoUserData
    /\ last = [op |-> "init", id |-> 0]

NextSync ==
    \/ Tick
    \/ \E t \in Times, issue_ok \in BOOLEAN : CreateAdd(t, issue_ok)
    \/ CreateSchedule
    \/ \E j \in jobs : FireStart(j)
    \/ \E f \in inflight, failed \in SUBSET get_allowed_chat_ids(env) : FireFinish(f, failed)
    \/ \E i \in RemIds : MarkDoneStart(i)
    \/ \E close_ok \in BOOLEAN : MarkDoneFinish(close_ok)
    \/ \E i \in Iids : ExternalClose(i)
    \/ SyncCollect
    \/ \E ok \in BOOLEAN : SyncLookup(ok)
    \/ SyncApply
    \/ \E failed \in SUBSET get_allowed_chat_ids(env) : SyncNotify(failed)
    \/ \E n \in SponsorNames, issue_ok \in BOOLEAN : ReviewAdd(n, issue_ok)
    \/ \E i \in RevIds : ApproveStart(i)
    \/ \E close_ok \in BOOLEAN : ApproveFinish(close_ok)
    \/ \E i \in RevIds : NeedFixStart(i)
    \/ NeedFixFinish
    \/ \E i \in RevIds : AgainStart(i)
    \/ AgainFinish

SpecSync == InitSync /\ [][NextSync]_vars

\* The scheduling the job queue gives the sync pass: the repeating gitlab_sync
\* job starts a pass whenever none is running, a pass that has started goes on
\* to its end, and the lookup of a pass succeeds again and again.
FairSync ==
    /\ WF_vars(SyncCollect)
    /\ SF_vars(SyncLookup(TRUE))
    /\ WF_vars(SyncApply)
    /\ WF_vars(\E failed \in SUBSET get_allowed_chat_ids(env) : SyncNotify(failed))


\* The review side alone: the store as MaxSeedRev lines of /review left it (every
\* choice of names and of issues created or not), then the review handlers, the
\* tracker and the sync pass.
RECURSIVE SeedStores(_)
SeedStores(n) ==
    IF n = 0 THEN {[reviews |-> <<>>, nextIid |-> 1]}
    ELSE {[reviews |-> add_review(s.reviews, name,
                                  IF issue_ok THEN Some(s.nextIid) ELSE NULL),
           nextIid |-> IF issue_ok THEN s.nextIid + 1 ELSE s.nextIid] :
             s \in SeedStores(n - 1), name \in SponsorNames, issue_ok \in BOOLEAN}

SeedRevIds == 1..MaxSeedRev

InitReview ==
    /\ now = 0
    /\ env = SyncEnv
    /\ proc = "up"
    /\ sched = post_init(SyncEnv).names
    /\ reminders = <<>>
    /\ \E s \in SeedStores(MaxSeedRev) : reviews = s.reviews /\ nextIid = s.nextIid
    /\ jobs = {}
    /\ inflight = {}
    /\ handler = NULL
    /\ loadpc = "done"
    /\ loadSnap = {}
    /\ syncpc = "idle"
    /\ syncRem = {}
    /\ syncRev = {}
    /\ syncClosed = {}
    /\ closed = {}
    /\ sent = {}
    /\ reviewers = <<>>
    /\ user_data = NoUserData
    /\ last = [op |-> "init", id |-> 0]

NextReview ==
    \/ \E i \in Iids : ExternalClose(i)
    \/ SyncCollect
    \/ \E ok \in BOOLEAN : SyncLookup(ok)
    \/ SyncApply
    \/ \E failed \in SUBSET get_allowed_chat_ids(env) : SyncNotify(failed)
    \/ \E i \in SeedRevIds : ApproveStart(i)
    \/ \E close_ok \in BOOLEAN : ApproveFinish(close_ok)
    \/ \E n \in SponsorNames, i \in {0} \cup SeedRevIds : ApproveNameStart(n, i)
    \/ \E close_ok \in BOOLEAN : ApproveNameFinish(close_ok)
    \/ \E i \in SeedRevIds : NeedFixStart(i)
    \/ NeedFixFinish
    \/ \E i \in SeedRevIds : AgainStart(i)
    \/ AgainFinish

SpecReview == InitReview /\ [][NextReview]_vars

\* The reviewer roster alone: /reviewer_add and /reviewer_remove with arguments
\* that differ in their leading "@" and in case.
ReviewerArgs ==
    {<<"b">>, <<"@", "b">>, <<"@", "@", "b">>, <<"B">>, <<"@", "B">>, <<"b", "@">>,
     <<"@">>}

\* the table as it is before anybody is added, or after one /reviewer_add
ReviewerSeeds == {<<>>, add_reviewer(<<>>, <<"@", "b">>)}

InitReviewer ==
    /\ now = 0
    /\ env = SyncEnv
    /\ proc = "up"
    /\ sched = post_init(SyncEnv).names
    /\ reminders = <<>>
    /\ reviews = <<>>
    /\ reviewers = <<>>
    /\ user_data = NoUserData
    /\ jobs = {}
    /\ inflight = {}
    /\ handler = NULL
    /\ loadpc = "done"
    /\ loadSnap = {}
    /\ syncpc = "idle"
    /\ syncRem = {}
    /\ syncRev = {}
    /\ syncClosed = {}
    /\ nextIid = 1
    /\ closed = {}
    /\ sent = {}
    /\ last = [op |-> "init", id |-> 0]

NextReviewer ==
    \/ \E arg \in ReviewerArgs : ReviewerAdd(arg)
    \/ \E arg \in ReviewerArgs : ReviewerRemove(arg)

SpecReviewer == InitReviewer /\ [][NextReviewer]_vars

\* /remind with a date or time at the end of its text: the clock at a few
\* instants, texts for each of the four formats, valid and not, with and
\* without content before them.
RemindArgs ==
    {<<>>,
     <<"@", "b", "o", "b">>,
     <<"x">>,
     <<"1", "4", ":", "0", "0">>,
     <<"x", " ", "1", "4", ":", "0", "0">>,
     <<"x", "1", "4", ":", "0", "0">>,
     <<"@", "b", "o", "b", " ", "x", " ", "9", ":", "0", "5">>,
     <<"x", " ", "0", ":", "1", "0">>,
     <<"x", " ", "2", "4", ":", "0", "0">>,
     <<"x", " ", "1", "4", ":", "6", "0">>,
     <<"x", " ", "2", "/", "1", "5">>,
     <<"x", " ", "2", "-", "1", "0">>,
     <<"x", " ", "2", "/", "3", "0">>,
     <<"x", " ", "2", "/", "2", "9">>,
     <<"x", " ", "2", "/", "1", "5", " ", "1", "4", ":", "0", "0">>,
     <<"x", " ", "2", "-", "5", " ", "1", "4", ":", "0", "0">>,
     <<"x", " ", "1", "3", "/", "1", " ", "1", "4", ":", "0", "0">>,
     <<"x", " ", "2", "0", "2", "7", "-", "0", "2", "-", "1", "5", " ", "1", "4", ":", "0", "0">>,
     <<"x", " ", "2", "0", "2", "5", "/", "1", "/", "1", " ", "1", "0", ":", "0", "0">>,
     <<"2", "0", "2", "7", "-", "0", "2", "-", "1", "5", " ", "1", "4", ":", "0", "0">>,
     <<"x", " ", "1", "2", "3", ":", "4", "5">>}

RemindInstants ==
    {Val(datetime(2026, 2, 10, 10, 0)), Val(datetime(2026, 2, 10, 14, 0)),
     Val(datetime(2026, 12, 31, 23, 30)), Val(datetime(2028, 2, 29, 8, 0)),
     Val(datetime(2028, 2, 29, 10, 0))}

InitRemind ==
    /\ now \in RemindInstants
    /\ env = SyncEnv
    /\ proc = "up"
    /\ sched = post_init(SyncEnv).names
    /\ reminders = <<>>
    /\ reviews = <<>>
    /\ reviewers = <<>>
    /\ user_data = NoUserData
    /\ jobs = {}
    /\ inflight = {}
    /\ handler = NULL
    /\ loadpc = "done"
    /\ loadSnap = {}
    /\ syncpc = "idle"
    /\ syncRem = {}
    /\ syncRev = {}
    /\ syncClosed = {}
    /\ nextIid = 1
    /\ closed = {}
    /\ sent = {}
    /\ last = [op |-> "init", id |-> <<>>]

NextRemind ==
    \/ \E args \in RemindArgs, late \in BOOLEAN, issue_ok \in BOOLEAN :
           RemindCommand(args, late, issue_ok)
    \/ CreateSchedule

SpecRemind == InitRemind /\ [][NextRemind]_vars

\* The quiet-hours window alone: every pair of texts for QUIET_HOURS_START and
\* QUIET_HOURS_END, the clock at instants around the edges of the windows, and
\* the two review reminders, which ask is_quiet_hours.
QuietTexts ==
    {<<>>,
     <<" ">>,
     <<"2", "2", ":", "0", "0">>,
     <<"0", "8", ":", "0", "0">>,
     <<" ", "8", ":", "0", " ">>,
     <<"1", "2", ":", "0", "0", ":", "3", "0">>,
     <<"x", "x", ":", "0", "0">>,
     <<"2", "2", ":", "x">>,
     <<"2", "2">>,
     <<"2", "2", ":">>,
     <<":", "0", "0">>,
     <<"2", "4", ":", "0", "0">>,
     <<"0", "8", ":", "6", "0">>}

at(day, hour, minute) == (day * 24 + hour) * 60 + minute

QuietInstants ==
    {at(0, 0, 0), at(0, 7, 59), at(0, 8, 0), at(0, 11, 59), at(0, 12, 0),
     at(0, 21, 59), at(0, 22, 0), at(0, 23, 59), at(1, 7, 59), at(1, 8, 0)}

QuietEnvs ==
    {[SyncEnv EXCEPT !.QUIET_HOURS_START = a, !.QUIET_HOURS_END = b] :
        a \in {NULL} \cup {Some(t) : t \in QuietTexts},
        b \in {NULL} \cup {Some(t) : t \in QuietTexts}}

\* one review asked for, pending or sent back for a fix
QuietStores ==
    {add_review(<<>>, "acme", NULL),
     update_review_status(add_review(<<>>, "acme", NULL), "acme", "need_fix")}

InitQuiet ==
    /\ now \in QuietInstants
    /\ env \in QuietEnvs
    /\ proc = "up"
    /\ sched = post_init(env).names
    /\ reminders = <<>>
    /\ reviews \in QuietStores
    /\ nextIid = 1
    /\ jobs = {}
    /\ inflight = {}
    /\ handler = NULL
    /\ loadpc = "done"
    /\ loadSnap = {}
    /\ syncpc = "idle"
    /\ syncRem = {}
    /\ syncRev = {}
    /\ syncClosed = {}
    /\ closed = {}
    /\ sent = {}
    /\ reviewers \in ReviewerSeeds
    /\ user_data = NoUserData
    /\ last = [op |-> "init", id |-> 0]

NextQuiet ==
    \/ \E failed \in SUBSET get_allowed_chat_ids(env) : RemindPending(failed)
    \/ \E failed \in SUBSET get_allowed_chat_ids(env) : RemindNeedFix(failed)

SpecQuiet == InitQuiet /\ [][NextQuiet]_vars

\* Everything that sends on its own while the clock passes the end of the quiet
\* window of SyncEnv: a reminder created with its issue and its timer, a review
\* with its issue (pending or sent back for a fix), the timer callback, the sync
\* pass and the two review reminders.
GateReminders == {add_reminder(<<>>, Some(1), "once", NULL, Some(t)) : t \in Times}
GateReviews ==
    {add_review(<<>>, "acme", Some(2)),
     update_review_status(add_review(<<>>, "acme", Some(2)), "acme", "need_fix")}

InitGate ==
    /\ now = 0
    /\ env = SyncEnv
    /\ proc = "up"
    /\ sched = post_init(SyncEnv).names
    /\ reminders \in GateReminders
    /\ reviews \in GateReviews
    /\ jobs = schedule_reminder_job({}, reminder_dict(reminders, 1), now, "create")
    /\ inflight = {}
    /\ handler = NULL
    /\ loadpc = "done"
    /\ loadSnap = {}
    /\ syncpc = "idle"
    /\ syncRem = {}
    /\ syncRev = {}
    /\ syncClosed = {}
    /\ nextIid = 3
    /\ closed = {}
    /\ sent = {}
    /\ reviewers \in ReviewerSeeds
    /\ user_data = NoUserData
    /\ last = [op |-> "init", id |-> 0]

NextGate ==
    \/ Tick
    \/ \E j \in jobs : FireStart(j)
    \/ \E f \in inflight, failed \in SUBSET get_allowed_chat_ids(env) : FireFinish(f, failed)
    \/ \E i \in Iids : ExternalClose(i)
    \/ SyncCollect
    \/ \E ok \in BOOLEAN : SyncLookup(ok)
    \/ SyncApply
    \/ \E failed \in SUBSET get_allowed_chat_ids(env) : SyncNotify(failed)
    \/ \E failed \in SUBSET get_allowed_chat_ids(env) : RemindPending(failed)
    \/ \E failed \in SUBSET get_allowed_chat_ids(env) : RemindNeedFix(failed)

SpecGate == InitGate /\ [][NextGate]_vars

\* A reminder and a review that have their issues, with the handlers that change
\* them by hand, the timer, the tracker and the sync pass under FairSync.
NextLive ==
    \/ Tick
    \/ \E j \in jobs : FireStart(j)
    \/ \E f \in inflight, failed \in SUBSET get_allowed_chat_ids(env) : FireFinish(f, failed)
    \/ \E i \in RemIds : MarkDoneStart(i)
    \/ \E close_ok \in BOOLEAN : MarkDoneFinish(close_ok)
    \/ \E i \in Iids : ExternalClose(i)
    \/ SyncCollect
    \/ \E ok \in BOOLEAN : SyncLookup(ok)
    \/ SyncApply
    \/ \E failed \in SUBSET get_allowed_chat_ids(env) : SyncNotify(failed)
    \/ \E i \in RevIds : NeedFixStart(i)
    \/ NeedFixFinish
    \/ \E i \in RevIds : AgainStart(i)
    \/ AgainFinish

SpecLive == InitGate /\ [][NextLive]_vars /\ FairSync

\* The seeded reminder and review of InitGate in a process that is stopped and
\* started again: start-up and its loader, the timer and the sync pass.
NextAwait ==
    \/ PostInit
    \/ Restart
    \/ Tick
    \/ LoadRead
    \/ LoadSchedule
    \/ \E j \in jobs : FireStart(j)
    \/ \E f \in inflight, failed \in SUBSET get_allowed_chat_ids(env) : FireFinish(f, failed)
    \/ \E i \in Iids : ExternalClose(i)
    \/ SyncCollect
    \/ \E ok \in BOOLEAN : SyncLookup(ok)
    \/ SyncApply
    \/ \E failed \in SUBSET get_allowed_chat_ids(env) : SyncNotify(failed)

SpecAwait == InitGate /\ [][NextAwait]_vars

\* ------------------------------------------------------------ time stepper
\* handlers/reminder.py _get_time_stepper_keyboard, lines 97-108: the adjustment
\* buttons, callback data remind_time:adj_<unit>:<val>
StepperButtons ==
    {[unit |-> "h", val |-> v] : v \in {1, 4, -1, -4}}
        \cup {[unit |-> "m", val |-> v] : v \in {10, 30, -10, -30}}

\* dict.get(key, default)
get(o, default) == IF o = NULL THEN default ELSE Val(o)

\* the adjustment with a remainder that takes the sign of the sum
stepper_adjust_truncated(ud, unit, val) ==
    LET rem(x, n) == IF x >= 0 THEN x % n ELSE 0 - ((0 - x) % n)
    IN  IF unit = "h"
        THEN [ud EXCEPT !.remind_h = Some(rem(get(ud.remind_h, 9) + val, 24))]
        ELSE [ud EXCEPT !.remind_m = Some(rem(get(ud.remind_m, 0) + val, 60))]

\* remind_time_callback lines 436-439: Python's % gives a result with the sign
\* of the divisor, as the % of Integers does
stepper_adjust(ud, unit, val) ==
    IF unit = "h"
    THEN [ud EXCEPT !.remind_h = Some((get(ud.remind_h, 9) + val) % 24)]
    ELSE [ud EXCEPT !.remind_m = Some((get(ud.remind_m, 0) + val) % 60)]

\* lines 441-443: the keyboard is rebuilt from user_data["remind_h"] and
\* user_data["remind_m"]; a missing key raises KeyError after the store
stepper_keyboard_raises(ud) == ud.remind_h = NULL \/ ud.remind_m = NULL

\* remind_time_callback lines 408-414: remind_time:stepper_init
StepperInit ==
    /\ proc = "up"
    /\ handler = NULL
    /\ user_data' = [remind_h |-> Some(9), remind_m |-> Some(0)]
    /\ sent' = {}
    /\ Step("stepper_init", 0)
    /\ UNCHANGED <<reviewers, now, env, proc, sched, reminders, reviews, jobs, inflight,
                   handler, loadpc, loadSnap, syncpc, syncRem, syncRev, syncClosed,
                   nextIid, closed>>

\* remind_time_callback lines 431-444: remind_time:adj_h:<val> and adj_m:<val>.
\* The button pressed may be one of an old message: the keys are then missing
\* and the defaults 9 and 0 are taken.
StepperAdjust(unit, val) ==
    /\ proc = "up"
    /\ handler = NULL
    /\ [unit |-> unit, val |-> val] \in StepperButtons
    /\ user_data' = stepper_adjust(user_data, unit, val)
    /\ sent' = {}
    /\ Step(IF stepper_keyboard_raises(user_data')
            THEN (IF unit = "h" THEN "adj_h_raised" ELSE "adj_m_raised")
            ELSE (IF unit = "h" THEN "adj_h" ELSE "adj_m"), val)
    /\ UNCHANGED <<reviewers, now, env, proc, sched, reminders, reviews, jobs, inflight,
                   handler, loadpc, loadSnap, syncpc, syncRem, syncRev, syncClosed,
                   nextIid, closed>>

\* The stepper of one user in a process that is stopped and started again.
NextStepper ==
    \/ PostInit
    \/ Restart
    \/ StepperInit
    \/ \E b \in StepperButtons : StepperAdjust(b.unit, b.val)

SpecStepper == InitSync /\ [][NextStepper]_vars

\* =================================================================== claims
JobsFor(i) == {j \in jobs : j.id = i}
Past(next_at) == next_at # NULL /\ Val(next_at) < now
Future(next_at) == next_at # NULL /\ Val(next_at) > now

\* C1: when the callback of a `once` reminder that it found pending completes, the
\* stored next_remind_at is null and the status is what it was (the callback does
\* not write it); and a `once` reminder leaves `pending` only by a step that
\* applies mark-done to it (the manual status update or the sync pass).
C1_OnceFiredNullStillPending ==
    [][\A i \in ExistingRemIds : reminders[i].timing_type = "once" =>
          /\ (last'.op = "fire_finish" /\ last'.id = i) =>
                /\ reminders'[i].next_remind_at = NULL
                /\ reminders'[i].status = reminders[i].status
          /\ (reminders[i].status = "pending" /\ reminders'[i].status # "pending") =>
                \/ last'.op = "done_update" /\ last'.id = i
                \/ last'.op = "sync_apply"]_vars

\* a fired one-off reminder waiting for its acknowledgment
C1_Witness ==
    \E i \in ExistingRemIds :
        /\ last.op = "fire_finish" /\ last.id = i
        /\ reminders[i].timing_type = "once"
        /\ reminders[i].status = "pending"
        /\ reminders[i].next_remind_at = NULL

\* C2: after the callback of a pending `periodic` reminder with interval I has
\* completed at time T, the stored next_remind_at is T + I and exactly one timer
\* is outstanding for the reminder.
C2_PeriodicRearmed ==
    \A i \in ExistingRemIds :
        (last.op = "fire_finish" /\ last.id = i /\ reminders[i].timing_type = "periodic") =>
            /\ reminders[i].next_remind_at = Some(now + Val(reminders[i].interval_minutes))
            /\ Cardinality(JobsFor(i)) = 1

\* C3: at most one timer named remind_<id> is outstanding for any reminder id.
C3_AtMostOneTimer == \A i \in RemIds : Cardinality(JobsFor(i)) <= 1

\* C4: a timer fire that finds the row missing or not pending sends nothing,
\* leaves the store as it is and starts nothing that would do either later.
C4_FireOnNonPendingIsNoOp ==
    [][(/\ last'.op = "fire"
        /\ \/ last'.id \notin ExistingRemIds
           \/ reminders[last'.id].status # "pending") =>
            /\ sent' = {}
            /\ reminders' = reminders
            /\ inflight' = inflight]_vars

\* a timer has just fired for a reminder that is done
C4_Witness ==
    /\ last.op = "fire"
    /\ last.id \in ExistingRemIds
    /\ reminders[last.id].status = "done"
    /\ \A f \in inflight : f.id # last.id

\* C5: a reminder that is done stays done whatever step is taken, and a timer
\* fire that finds it done sends nothing and starts no callback that would.
C5_DoneIsTerminal ==
    [][\A i \in ExistingRemIds : reminders[i].status = "done" =>
          /\ reminders'[i].status = "done"
          /\ (last'.op = "fire" /\ last'.id = i) =>
                (sent' = {} /\ inflight' = inflight)]_vars

\* a timer left over by the sync pass has fired for the reminder the pass set done
C5_Witness ==
    \E i \in ExistingRemIds :
        /\ last.op = "fire" /\ last.id = i
        /\ reminders[i].status = "done"
        /\ reminders[i].gitlab_issue_iid # NULL
        /\ Val(reminders[i].gitlab_issue_iid) \in syncClosed
        /\ inflight = {}

\* C6: when an operation that sets a reminder to done is over (the mark-done
\* handler, the sync pass), no timer is outstanding for that reminder.
C6_DoneCancelsTimer ==
    /\ last.op = "done_finish" => JobsFor(last.id) = {}
    /\ last.op = "sync_done" =>
          \A e \in syncRem : e.iid \in syncClosed => JobsFor(e.id) = {}

\* C7: when the startup loader arms what it read, it writes nothing to the store;
\* a `once` row whose stored time is before now gets no timer from it, and a
\* `periodic` row whose stored time is before now gets a timer at the stored time,
\* which is due at once.
C7_StartupRecoveryByKind ==
    [][last'.op = "load_schedule" =>
          /\ reminders' = reminders
          /\ \A r \in loadSnap : Past(r.next_remind_at) =>
                LET armed == {j \in jobs' \ jobs : j.id = r.id}
                IN  IF r.timing_type = "once"
                    THEN armed = {}
                    ELSE /\ armed = {[id |-> r.id, when |-> Val(r.next_remind_at),
                                      by |-> "load"]}
                         /\ \A j \in armed : j.when <= now' /\ proc' = "up"]_vars

\* the loader has just armed a past-due periodic reminder
C7_Witness ==
    /\ last.op = "load_schedule"
    /\ \E r \in loadSnap :
          /\ r.timing_type = "periodic"
          /\ Past(r.next_remind_at)
          /\ [id |-> r.id, when |-> Val(r.next_remind_at), by |-> "load"] \in jobs

\* the loader has just passed over a past-due one-off reminder
C7_WitnessOnce ==
    /\ last.op = "load_schedule"
    /\ \E r \in loadSnap :
          /\ r.timing_type = "once"
          /\ Past(r.next_remind_at)
          /\ JobsFor(r.id) = {}
          /\ reminders[r.id].status = "pending"
          /\ reminders[r.id].next_remind_at = r.next_remind_at

\* C8: once a process start is over (post_init returned or raised, the loader, if
\* one was created, has finished, and no handler is in progress), every pending
\* reminder whose next_remind_at is in the future has a timer at its stored time.
StartupOver ==
    \/ proc = "dead"
    \/ proc = "up" /\ loadpc \in {"none", "done"} /\ handler = NULL

C8_EveryStartArmsPending ==
    StartupOver =>
        \A i \in ExistingRemIds :
            (reminders[i].status = "pending" /\ Future(reminders[i].next_remind_at)) =>
                \E j \in JobsFor(i) : j.when = Val(reminders[i].next_remind_at)

\* C9: a timer outstanding for reminder id r means that row r exists and that its
\* next_remind_at is the timer's fire time.
C9_TimerIsCacheOfStore ==
    \A j \in jobs :
        /\ j.id \in ExistingRemIds
        /\ reminders[j.id].next_remind_at = Some(j.when)

\* C10: when a sync pass whose lookup succeeded is over, every reminder whose
\* issue the lookup reported closed is done and every review whose issue it
\* reported closed is approved.
C10_SyncAppliesClosed ==
    last.op = "sync_done" =>
        /\ \A i \in ExistingRemIds :
              (/\ reminders[i].gitlab_issue_iid # NULL
               /\ Val(reminders[i].gitlab_issue_iid) \in syncClosed) =>
                  reminders[i].status = "done"
        /\ \A i \in ExistingRevIds :
              (/\ reviews[i].gitlab_issue_iid # NULL
               /\ Val(reviews[i].gitlab_issue_iid) \in syncClosed) =>
                  reviews[i].status = "approved"

\* a pass has just closed a reminder and a review whose issues were closed
C10_Witness ==
    /\ last.op = "sync_done"
    /\ \E e \in syncRem : e.iid \in syncClosed /\ reminders[e.id].status = "done"
    /\ \E e \in syncRev : e.iid \in syncClosed /\ reviews[e.id].status = "approved"

\* C11: the updates of a sync pass leave the status of every reminder and every
\* review whose own issue the lookup did not report closed (or that has no issue)
\* as it was.
NotReportedClosed(iid) == iid = NULL \/ Val(iid) \notin syncClosed

C11_SyncChangesOnlyClosed ==
    [][last'.op = "sync_apply" =>
          /\ \A i \in ExistingRemIds :
                NotReportedClosed(reminders[i].gitlab_issue_iid) =>
                    reminders'[i].status = reminders[i].status
          /\ \A i \in ExistingRevIds :
                NotReportedClosed(reviews[i].gitlab_issue_iid) =>
                    reviews'[i].status = reviews[i].status]_vars

\* C12: a sync pass that starts when no pending reminder and no pending or
\* need_fix review holds an issue reference ends at once: it does not go on to the
\* lookup, changes no row and no issue, and sends nothing.
NoOpenRefs ==
    /\ \A i \in ExistingRemIds :
          reminders[i].status = "pending" => reminders[i].gitlab_issue_iid = NULL
    /\ \A i \in ExistingRevIds :
          reviews[i].status \in {"pending", "need_fix"} => reviews[i].gitlab_issue_iid = NULL

C12_NoRefsNoPass ==
    [][(last'.op \in {"sync_none", "sync_collect"} /\ NoOpenRefs) =>
          /\ syncpc' = "idle"
          /\ reminders' = reminders
          /\ reviews' = reviews
          /\ closed' = closed
          /\ sent' = {}]_vars

C12_Witness ==
    /\ last.op = "sync_none"
    /\ syncpc = "idle"
    /\ \E i \in ExistingRemIds :
          reminders[i].status = "done" /\ reminders[i].gitlab_issue_iid # NULL
    /\ \E i \in ExistingRevIds : reviews[i].status = "pending"

\* C13: the lines of the one notification a sync pass sends are exactly the
\* transitions its updates applied: one line per reminder the pass set to done and
\* per review it set to approved, and no line for a row whose stored status the
\* pass did not change.
TransitionsApplied ==
    {<<"reminder", i>> : i \in {k \in ExistingRemIds :
                                  reminders'[k].status # reminders[k].status}}
    \cup {<<"review", i>> : i \in {k \in ExistingRevIds :
                                     reviews'[k].status # reviews[k].status}}

C13_NotificationListsTransitions ==
    [][last'.op = "sync_apply" =>
          notify_lines(syncRem, syncRev, syncClosed) = TransitionsApplied]_vars

\* C14: a sync pass whose bulk lookup fails ends there: every reminder and review
\* is as it was, nothing is sent, the process and the repeating sync job go on,
\* and the pass leaves nothing behind, so that the next pass collects and asks
\* again for every issue of this pass whose row is still open.
OpenIidsOfPass ==
    {e.iid : e \in {x \in syncRem : reminders[x.id].status = "pending"}}
    \cup {e.iid : e \in {x \in syncRev : reviews[x.id].status \in {"pending", "need_fix"}}}

C14_LookupFailureLeavesState ==
    [][last'.op = "sync_failed" =>
          /\ reminders' = reminders
          /\ reviews' = reviews
          /\ closed' = closed
          /\ sent' = {}
          /\ proc' = "up"
          /\ "gitlab_sync" \in sched'
          /\ syncpc' = "idle"
          /\ syncClosed' = {}
          /\ OpenIidsOfPass \subseteq
                all_iids(reminder_by_iid(reminders'), review_by_iid(reviews'))]_vars

C14_Witness ==
    /\ last.op = "sync_failed"
    /\ syncpc = "idle"
    /\ closed # {}
    /\ \E i \in ExistingRemIds :
          /\ reminders[i].status = "pending"
          /\ reminders[i].gitlab_issue_iid # NULL
          /\ Val(reminders[i].gitlab_issue_iid) \in closed

\* C15: with a start and an end that both parse, is_quiet_hours answers
\* (now >= start or now < end) when start > end and (start <= now < end) when
\* start <= end; for 22:00 to 08:00 it answers yes at 07:59, no at 08:00, no at
\* 21:59 and yes at 22:00.  The answer is read off the review reminder that asked.
RemindOps == {"remind_pending", "remind_pending_quiet",
              "remind_need_fix", "remind_need_fix_quiet"}
AnsweredQuiet == last.op \in {"remind_pending_quiet", "remind_need_fix_quiet"}
MinuteOfDay(t) == t[1] * 60 + t[2]
QuietStart == _parse_time(getenv(env, "QUIET_HOURS_START", <<>>))
QuietEnd == _parse_time(getenv(env, "QUIET_HOURS_END", <<>>))

C15_QuietWindow ==
    (last.op \in RemindOps /\ QuietStart # NULL /\ QuietEnd # NULL) =>
        LET start == MinuteOfDay(Val(QuietStart))
            end == MinuteOfDay(Val(QuietEnd))
            clock == MinuteOfDay(time_of(now))
        IN  /\ AnsweredQuiet <=> IF start > end THEN clock >= start \/ clock < end
                                 ELSE start <= clock /\ clock < end
            /\ (Val(QuietStart) = <<22, 0>> /\ Val(QuietEnd) = <<8, 0>>) =>
                  /\ time_of(now) = <<7, 59>> => AnsweredQuiet
                  /\ time_of(now) = <<8, 0>> => ~AnsweredQuiet
                  /\ time_of(now) = <<21, 59>> => ~AnsweredQuiet
                  /\ time_of(now) = <<22, 0>> => AnsweredQuiet

C15_Witness ==
    /\ last.op = "remind_pending_quiet"
    /\ QuietStart = Some(<<22, 0>>)
    /\ QuietEnd = Some(<<8, 0>>)
    /\ time_of(now) = <<7, 59>>
    /\ now > MinuteOfDay(<<23, 59>>)

\* C16: when QUIET_HOURS_START or QUIET_HOURS_END is unset, empty or not a valid
\* HH:MM (a part that is not a number, no minute part, hour above 23, minute above
\* 59), is_quiet_hours answers no at every time.
InvalidTexts ==
    {<<" ">>,
     <<"x", "x", ":", "0", "0">>,
     <<"2", "2", ":", "x">>,
     <<"2", "2">>,
     <<"2", "2", ":">>,
     <<":", "0", "0">>,
     <<"2", "4", ":", "0", "0">>,
     <<"0", "8", ":", "6", "0">>}
NoWindowText(v) == v = NULL \/ Val(v) = <<>> \/ Val(v) \in InvalidTexts

C16_FailsOpen ==
    (/\ last.op \in RemindOps
     /\ NoWindowText(env.QUIET_HOURS_START) \/ NoWindowText(env.QUIET_HOURS_END)) =>
        ~AnsweredQuiet

C16_Witness ==
    /\ last.op = "remind_pending"
    /\ env.QUIET_HOURS_START = Some(<<"2", "4", ":", "0", "0">>)
    /\ env.QUIET_HOURS_END = Some(<<"0", "8", ":", "0", "0">>)
    /\ time_of(now) = <<7, 59>>
    /\ sent # {}

\* C17: while the clock is inside the quiet window the two review reminders send
\* nothing, and the window stops nothing else: a timer callback running then
\* still sends the reminder to every chat and writes the row, and a sync pass
\* running then still sets the closed items to done / approved and sends its
\* notification.
InQuietWindow ==
    /\ QuietStart # NULL
    /\ QuietEnd # NULL
    /\ LET start == MinuteOfDay(Val(QuietStart))
           end == MinuteOfDay(Val(QuietEnd))
           clock == MinuteOfDay(time_of(now))
       IN  IF start > end THEN clock >= start \/ clock < end
           ELSE start <= clock /\ clock < end

C17_GateOnlyReviewReminders ==
    [][InQuietWindow =>
          /\ last'.op \in RemindOps => (sent' = {} /\ reviews' = reviews)
          /\ last'.op = "fire_finish" =>
                /\ {d.chat : d \in sent'} = get_allowed_chat_ids(env)
                /\ \A d \in sent' : d.kind = "remind" /\ d.about = {<<"reminder", last'.id>>}
                /\ reminders'[last'.id].next_remind_at = NULL
          /\ last'.op = "sync_apply" =>
                /\ \A e \in syncRem : e.iid \in syncClosed => reminders'[e.id].status = "done"
                /\ \A e \in syncRev : e.iid \in syncClosed => reviews'[e.id].status = "approved"
          /\ last'.op = "sync_done" =>
                /\ {d.chat : d \in sent'} = get_allowed_chat_ids(env)
                /\ \A d \in sent' : d.kind = "sync"]_vars

C17_Witness ==
    /\ InQuietWindow
    /\ last.op = "fire_finish"
    /\ \E d \in sent : d.ok
    /\ \E i \in ExistingRevIds : reviews[i].status = "approved"

\* C18: approval of a review is terminal: no step of an approval, a need-fix
\* mark, a re-submission (by name or by id) or a sync pass changes the status of a
\* row that is approved, whatever was read before the row became approved.
C18_ApprovedIsTerminal ==
    [][\A i \in ExistingRevIds :
          reviews[i].status = "approved" =>
              /\ i \in 1..Len(reviews')
              /\ reviews'[i].status = "approved"]_vars

C18_Witness ==
    /\ last.op \in {"need_fix_update", "again_update"}
    /\ last.id \in ExistingRevIds
    /\ reviews[last.id].status = "approved"
    /\ \E i \in ExistingRevIds : i # last.id /\ reviews[i].status = "approved"

ApproveReads == {"approve_read", "approve_refused", "approve_name_read",
                 "approve_name_refused"}
ApproveUpdates == {"approve_update", "approve_name_update"}

C20_ApproveApprovedIsNoOp ==
    [][(/\ last'.op \in ApproveReads \cup ApproveUpdates
        /\ last'.id \in ExistingRevIds
        /\ reviews[last'.id].status = "approved") =>
          /\ reviews' = reviews
          /\ closed' = closed
          /\ sent' = {}
          /\ handler' = NULL]_vars

C20_Witness ==
    /\ last.op = "approve_name_update"
    /\ last.id \in ExistingRevIds
    /\ reviews[last.id].status = "approved"
    /\ reviews[last.id].gitlab_issue_iid # NULL
    /\ sent = {}

\* C21: an update of the reviews by sponsor name (the approval by name, the
\* update of a sync pass) acts on the most recently created row of the name only:
\* every older row with the same sponsor name keeps its status.
OlderRowOfName(i) ==
    \E k \in ExistingRevIds : k > i /\ reviews[k].sponsor_name = reviews[i].sponsor_name

C21_NameUpdateLatestOnly ==
    [][last'.op \in {"approve_name_update", "sync_apply"} =>
          \A i \in ExistingRevIds :
              OlderRowOfName(i) => reviews'[i].status = reviews[i].status]_vars

\* C22: the usernames of the reviewers are unique after any sequence of
\* add_reviewer and remove_reviewer, and none is stored with a leading "@"; adding
\* a username that is present returns false and leaves the table as it is, and so
\* does removing one that is absent.
UniqueUsernames(ws) == \A i, j \in 1..Len(ws) : ws[i] = ws[j] => i = j
Bare(arg) == IF \A k \in 1..Len(arg) : arg[k] = "@" THEN <<>>
             ELSE LET k == CHOOSE c \in 1..Len(arg) :
                               arg[c] # "@" /\ \A b \in 1..(c - 1) : arg[b] = "@"
                  IN  SubSeq(arg, k, Len(arg))
Stored(ws, name) == \E i \in 1..Len(ws) : ws[i] = name

C22_ReviewerUsernamesUnique ==
    [][/\ UniqueUsernames(reviewers')
       /\ \A i \in 1..Len(reviewers') : reviewers'[i] = <<>> \/ reviewers'[i][1] # "@"
       /\ last'.op \in {"reviewer_added", "reviewer_exists"} =>
             IF Stored(reviewers, Bare(last'.id))
             THEN last'.op = "reviewer_exists" /\ reviewers' = reviewers
             ELSE last'.op = "reviewer_added" /\ Stored(reviewers', Bare(last'.id))
       /\ last'.op \in {"reviewer_removed", "reviewer_missing"} =>
             IF Stored(reviewers, Bare(last'.id))
             THEN last'.op = "reviewer_removed" /\ ~Stored(reviewers', Bare(last'.id))
             ELSE last'.op = "reviewer_missing" /\ reviewers' = reviewers]_vars

C22_Witness ==
    /\ last.op = "reviewer_exists"
    /\ last.id = <<"@", "@", "b">>
    /\ Stored(reviewers, <<"b">>)
    /\ Stored(reviewers, <<"B">>)
    /\ Len(reviewers) > 2

\* the reminder the last step stored
Created == reminders[Len(reminders)]

\* C23: every reminder that /remind creates from a date or time at the end of
\* its text is stored with a next_remind_at strictly after the instant of its
\* creation.
C23_CreatedInFuture ==
    [][last'.op = "remind_direct" => Val(Created'.next_remind_at) > now']_vars


\* the text remind_command gave the parser in the last step
ParsedText == Val(raw_content(last.id))

\* a text that ends in a clock time HH:MM with 0 <= HH <= 23 and MM <= 59, with
\* no date before the time and with content before it
EndsInBareClock(text) ==
    /\ search(patterns[1], text) = NULL
    /\ search(patterns[2], text) = NULL
    /\ search(patterns[4], text) # NULL
    /\ LET m == Val(search(patterns[4], text))
       IN  /\ DecimalValue(m.group[1]) <= 23
           /\ DecimalValue(m.group[2]) <= 59
           /\ rstrip(SubSeq(text, 1, m.start - 1)) # <<>>

\* that clock time on the day of instant nowv
ClockToday(text, nowv) ==
    LET m == Val(search(patterns[4], text))
    IN  (nowv \div (24 * 60)) * (24 * 60)
            + DecimalValue(m.group[1]) * 60 + DecimalValue(m.group[2])

\* C24: for a text that ends in a bare clock time HH:MM after some content,
\* _parse_inline_datetime returns today at HH:MM when that instant is not
\* before now, and tomorrow at HH:MM when it is before now.
C24_ClockTodayOrTomorrow ==
    [][(/\ last'.op \in {"remind_direct", "remind_picker"}
        /\ EndsInBareClock(ParsedText'))
       => /\ last'.op = "remind_direct"
          /\ LET today == ClockToday(ParsedText', now')
                 dt == Val(Created'.next_remind_at)
             IN  /\ today > now' => dt = today
                 /\ today < now' => dt = today + 24 * 60
                 /\ today = now' => dt \in {today, today + 24 * 60}]_vars

\* a clock time already passed was stored as tomorrow's
C24_Witness ==
    /\ last.op = "remind_direct"
    /\ EndsInBareClock(ParsedText)
    /\ ClockToday(ParsedText, now) < now
    /\ Val(Created.next_remind_at) = ClockToday(ParsedText, now) + 24 * 60


\* pattern p matches at the end of the text and leaves content before the match
MatchesWithContent(p, text) ==
    /\ search(patterns[p], rstrip(text)) # NULL
    /\ rstrip(SubSeq(rstrip(text), 1, Val(search(patterns[p], rstrip(text))).start - 1)) # <<>>

\* what pattern p makes of its match: NULL when the numbers are no date or time
ResultOf(p, text, nowv, late) ==
    LET m == Val(search(patterns[p], rstrip(text)))
    IN  IF builder(p, m, nowv) = NULL THEN NULL
        ELSE roll_year(p, m, roll_day(p, Val(builder(p, m, nowv)), nowv, late), nowv, late)

First(S) == CHOOSE p \in S : \A q \in S : p <= q

\* C25 as stated: the patterns are tried in the order full date and time,
\* month/day and time, month/day, clock time; the result is that of the first
\* pattern that matches at the end of the text and leaves content; when none
\* matches no reminder is created and the picker is shown.
C25_FirstMatchingPattern ==
    [][last'.op \in {"remind_direct", "remind_picker"}
       => \E late \in BOOLEAN :
            LET matching == {p \in 1..Len(patterns) : MatchesWithContent(p, ParsedText')}
            IN  IF matching = {}
                THEN last'.op = "remind_picker" /\ reminders' = reminders /\ handler' = NULL
                ELSE /\ last'.op = "remind_direct"
                     /\ Created'.next_remind_at
                            = ResultOf(First(matching), ParsedText', now', late)]_vars

\* C25 amended: the result is that of the first pattern that matches at the end
\* of the text, whose numbers make a date and time, and that leaves content;
\* when there is no such pattern no reminder is created and the picker is shown.
C25_FirstUsablePattern ==
    [][last'.op \in {"remind_direct", "remind_picker"}
       => \E late \in BOOLEAN :
            LET usable == {p \in 1..Len(patterns) :
                               /\ MatchesWithContent(p, ParsedText')
                               /\ ResultOf(p, ParsedText', now', late) # NULL}
            IN  IF usable = {}
                THEN last'.op = "remind_picker" /\ reminders' = reminders /\ handler' = NULL
                ELSE /\ last'.op = "remind_direct"
                     /\ Created'.next_remind_at
                            = ResultOf(First(usable), ParsedText', now', late)]_vars

\* a month/day with time that is no date was passed over and the clock time
\* behind it gave the result
C25_Witness ==
    /\ last.op = "remind_direct"
    /\ MatchesWithContent(2, ParsedText)
    /\ \A late \in BOOLEAN : ResultOf(2, ParsedText, now, late) = NULL
    /\ \E late \in BOOLEAN : Created.next_remind_at = ResultOf(4, ParsedText, now, late)


\* C26: execute_reminder_job attempts a delivery to every configured chat: a
\* send that fails stops neither the attempts for the other chats nor the
\* update of next_remind_at after the fire.
C26_FireAttemptsEveryChat ==
    [][last'.op = "fire_finish"
       => /\ {d.chat : d \in sent'} = get_allowed_chat_ids(env)
          /\ \A d \in sent' : d.kind = "remind" /\ d.about = {<<"reminder", last'.id>>}
          /\ reminders'[last'.id].next_remind_at = NULL]_vars

\* a fire whose send failed for one chat and went through for another
C26_Witness ==
    /\ last.op = "fire_finish"
    /\ \E d \in sent : ~d.ok
    /\ \E d \in sent : d.ok
    /\ reminders[last.id].next_remind_at = NULL


\* C27: whatever the scheduler's configuration values are, unset or malformed,
\* setup_scheduler completes and registers the four periodic jobs and the loader.
C27_SetupAlwaysCompletes ==
    [][(last'.op = "post_init" /\ get_allowed_chat_ids(env) # {})
       => /\ proc' = "up"
          /\ sched' = {"pending_reminder", "need_fix_reminder", "daily_summary",
                       "gitlab_sync"}
          /\ loadpc' = "task"]_vars


\* C28: marking a pending reminder with an issue reference done by hand asks the
\* tracker to close that issue, and no other, once; when the close fails the
\* reminder is done all the same and its timer is removed.
C28_DoneClosesItsIssue ==
    [][(/\ last'.op = "done_finish"
        /\ Val(handler).was = "pending"
        /\ Val(handler).gitlab_issue_iid # NULL)
       => /\ reminders[last'.id].gitlab_issue_iid = Val(handler).gitlab_issue_iid
          /\ \E ok \in BOOLEAN :
                /\ sent' = {[chat |-> "gitlab", kind |-> "close_issue",
                             about |-> {<<"issue", Val(reminders[last'.id].gitlab_issue_iid)>>},
                             ok |-> ok]}
                /\ ~ok => closed' = closed
          /\ reminders'[last'.id].status = "done"
          /\ {j \in jobs' : j.id = last'.id} = {}]_vars

\* a reminder marked done whose close request failed: done, no timer, the issue
\* still open
C28_Witness ==
    /\ last.op = "done_finish"
    /\ reminders[last.id].status = "done"
    /\ reminders[last.id].gitlab_issue_iid # NULL
    /\ \E d \in sent : d.kind = "close_issue" /\ ~d.ok
    /\ Val(reminders[last.id].gitlab_issue_iid) \notin closed
    /\ JobsFor(last.id) = {}


\* the issue references of the rows still open: pending reminders, with or
\* without a next_remind_at, and reviews that are pending or need a fix
OpenRefs ==
    {Val(reminders[i].gitlab_issue_iid) :
        i \in {k \in ExistingRemIds : /\ reminders[k].status = "pending"
                                       /\ reminders[k].gitlab_issue_iid # NULL}}
    \cup {Val(reviews[i].gitlab_issue_iid) :
        i \in {k \in ExistingRevIds : /\ reviews[k].status \in {"pending", "need_fix"}
                                       /\ reviews[k].gitlab_issue_iid # NULL}}

\* the references of done reminders and approved reviews
SettledRefs ==
    {Val(reminders[i].gitlab_issue_iid) :
        i \in {k \in ExistingRemIds : /\ reminders[k].status = "done"
                                       /\ reminders[k].gitlab_issue_iid # NULL}}
    \cup {Val(reviews[i].gitlab_issue_iid) :
        i \in {k \in ExistingRevIds : /\ reviews[k].status = "approved"
                                       /\ reviews[k].gitlab_issue_iid # NULL}}

\* the references a pass that has read the store asks the tracker about
Asked == IF syncpc = "query" THEN all_iids(syncRem, syncRev) ELSE {}

C30_AgainOnlyFromNeedFix ==
    [][/\ last'.op \in {"again_missing", "again_refused", "again_read"}
          => /\ reviews' = reviews
             /\ IF /\ last'.id \in ExistingRevIds
                   /\ reviews[last'.id].status = "need_fix"
                THEN last'.op = "again_read" /\ handler' # NULL
                ELSE last'.op # "again_read" /\ handler' = NULL
       /\ last'.op = "again_update"
          => /\ \A i \in ExistingRevIds : i # last'.id => reviews'[i] = reviews[i]
             /\ \/ reviews'[last'.id] = reviews[last'.id]
                \/ /\ reviews[last'.id].status = "need_fix"
                   /\ reviews'[last'.id] = [reviews[last'.id] EXCEPT !.status = "pending"]
             /\ reviews'[last'.id].status = "pending"
                   => need_fix_gate(Some(reviews'[last'.id])) = "read"
       /\ last'.op = "need_fix_update" /\ reviews'[last'.id].status = "need_fix"
          => again_gate(Some(reviews'[last'.id])) = "read"]_vars

\* a review sent in again: it was need_fix and is pending, open to a next round
C30_Witness ==
    /\ last.op = "again_update"
    /\ reviews[last.id].status = "pending"
    /\ need_fix_gate(Some(reviews[last.id])) = "read"


\* a text that ends in a month/day, with no year and no time, that is a day of
\* the calendar (29 February included), and with content before it
EndsInBareMonthDay(text) ==
    /\ search(patterns[1], text) = NULL
    /\ search(patterns[2], text) = NULL
    /\ search(patterns[3], text) # NULL
    /\ LET m == Val(search(patterns[3], text))
           month == DecimalValue(m.group[1])
           day == DecimalValue(m.group[2])
       IN  /\ month \in 1..12
           /\ day >= 1
           /\ day <= (IF month = 2 THEN 29 ELSE days_in_month(1, month))
           /\ rstrip(SubSeq(text, 1, m.start - 1)) # <<>>

\* that month/day at 09:00 in the year of instant nowv plus more years; NULL
\* when that year has no such day
MonthDayAtNine(text, nowv, more) ==
    LET m == Val(search(patterns[3], text))
    IN  datetime(date_of(nowv).year + more,
                 DecimalValue(m.group[1]), DecimalValue(m.group[2]), 9, 0)

\* C31 as stated: for a text that ends in a bare month/day after some content,
\* _parse_inline_datetime returns that date at 09:00 in the current year, or in
\* the next year when that instant is before now.
C31_MonthDayThisOrNextYear ==
    [][(/\ last'.op \in {"remind_direct", "remind_picker"}
        /\ EndsInBareMonthDay(ParsedText'))
       => /\ last'.op = "remind_direct"
          /\ LET this == MonthDayAtNine(ParsedText', now', 0)
                 next == MonthDayAtNine(ParsedText', now', 1)
                 dt == Created'.next_remind_at
             IN  /\ this # NULL
                 /\ Val(this) > now' => dt = this
                 /\ Val(this) < now' => dt = next /\ next # NULL
                 /\ Val(this) = now' => dt \in {this, next}]_vars

\* C31 amended: the same, when the current year has that day and, if its 09:00
\* is before now, the next year has it too; otherwise (29 February outside a
\* leap year) no timestamp is returned.
C31_MonthDayWhereItExists ==
    [][(/\ last'.op \in {"remind_direct", "remind_picker"}
        /\ EndsInBareMonthDay(ParsedText'))
       => LET this == MonthDayAtNine(ParsedText', now', 0)
              next == MonthDayAtNine(ParsedText', now', 1)
              dt == Created'.next_remind_at
          IN  IF this = NULL \/ (Val(this) < now' /\ next = NULL)
              THEN last'.op = "remind_picker" /\ reminders' = reminders
              ELSE /\ last'.op = "remind_direct"
                   /\ Val(this) > now' => dt = this
                   /\ Val(this) < now' => dt = next
                   /\ Val(this) = now' => dt \in {this, next}]_vars

\* a month/day already passed this year was stored as next year's
C31_Witness ==
    /\ last.op = "remind_direct"
    /\ EndsInBareMonthDay(ParsedText)
    /\ Val(MonthDayAtNine(ParsedText, now, 0)) < now
    /\ Created.next_remind_at = MonthDayAtNine(ParsedText, now, 1)


\* the first step of the mark-done callback and of the three review callbacks
DoneOps == {"done_missing", "done_update"}
ReviewCallbackOps ==
    {"approve_missing", "approve_refused", "approve_read",
     "need_fix_missing", "need_fix_refused", "need_fix_read",
     "again_missing", "again_refused", "again_read"}

\* C32: a callback for an id that is not in the store is a no-op: mark-done for
\* a missing reminder id and approve, need-fix and re-submit for a missing
\* review id change no row, call the tracker for nothing, remove no timer and
\* end there, with the process running on.
C32_MissingIdIsNoOp ==
    [][(\/ last'.op \in DoneOps /\ last'.id \notin ExistingRemIds
        \/ last'.op \in ReviewCallbackOps /\ last'.id \notin ExistingRevIds)
       => /\ last'.op \in {"done_missing", "approve_missing", "need_fix_missing",
                           "again_missing"}
          /\ reminders' = reminders
          /\ reviews' = reviews
          /\ closed' = closed
          /\ sent' = {}
          /\ jobs' = jobs
          /\ handler' = NULL
          /\ proc' = "up"]_vars

\* a review callback that found no row for its id, with a reminder and its timer
\* in the store
C32_Witness ==
    /\ last.op \in {"approve_missing", "need_fix_missing", "again_missing"}
    /\ last.id \notin ExistingRevIds
    /\ handler = NULL
    /\ jobs # {}


MarkingDone(i) ==
    handler # NULL /\ Val(handler).op = "remind_done" /\ Val(handler).id = i

Quiescent ==
    /\ proc = "up"
    /\ handler = NULL
    /\ loadpc \notin {"task", "loaded"}

\* C35: in every quiescent state after start-up, each reminder with status
\* pending and a next_remind_at that is not null and still in the future has
\* exactly one outstanding timer.
C35_QuiescentPendingHasOneTimer ==
    Quiescent =>
        \A i \in ExistingRemIds :
            (reminders[i].status = "pending" /\ Future(reminders[i].next_remind_at))
                => Cardinality(JobsFor(i)) = 1


\* C36: a reminder or review created while create_issue gave nothing is stored
\* as a pending row with a null issue reference, the reminder's timer is armed
\* when its time is not already past, and a sync pass neither collects such a row
\* for its lookup nor changes its status.
C36_NoIssueDoesNotBlock ==
    [][/\ last'.op \in {"create_add", "remind_direct"} =>
             /\ Len(reminders') = Len(reminders) + 1
             /\ reminders'[last'.id].status = "pending"
             /\ nextIid' = nextIid => reminders'[last'.id].gitlab_issue_iid = NULL
       /\ last'.op = "review_add" =>
             /\ Len(reviews') = Len(reviews) + 1
             /\ reviews'[last'.id].status = "pending"
             /\ nextIid' = nextIid => reviews'[last'.id].gitlab_issue_iid = NULL
       /\ (/\ last'.op = "create_schedule"
           /\ reminders[last'.id].gitlab_issue_iid = NULL
           /\ ~Past(reminders[last'.id].next_remind_at)) =>
             \E j \in jobs' : /\ j.id = last'.id
                              /\ j.when = Val(reminders[last'.id].next_remind_at)
       /\ last'.op = "sync_collect" =>
             /\ \A e \in syncRem' : reminders[e.id].gitlab_issue_iid # NULL
             /\ \A e \in syncRev' : reviews[e.id].gitlab_issue_iid # NULL
       /\ last'.op = "sync_apply" =>
             /\ \A i \in ExistingRemIds :
                   reminders[i].gitlab_issue_iid = NULL =>
                       reminders'[i].status = reminders[i].status
             /\ \A i \in ExistingRevIds :
                   reviews[i].gitlab_issue_iid = NULL =>
                       reviews'[i].status = reviews[i].status]_vars


\* a one-off reminder that has fired and waits for its acknowledgment
Awaiting(i) ==
    /\ i \in ExistingRemIds
    /\ reminders[i].timing_type = "once"
    /\ reminders[i].status = "pending"
    /\ reminders[i].next_remind_at = NULL

\* C37: a one-off reminder that has fired and waits for its acknowledgment is
\* still reconciled by the sync loop: a pass collects it, and a pass whose lookup
\* reported its issue closed sets it to done; and a start-up load that reads the
\* store while it waits neither takes it into its snapshot nor arms a timer for it.
C37_AwaitingIsSyncedNotReloaded ==
    [][/\ last'.op \in {"sync_collect", "sync_none"} =>
             \A i \in ExistingRemIds :
                 (Awaiting(i) /\ reminders[i].gitlab_issue_iid # NULL)
                     => Val(reminders[i].gitlab_issue_iid) \in {e.iid : e \in syncRem'}
       /\ last'.op = "sync_apply" =>
             \A i \in ExistingRemIds :
                 (/\ Awaiting(i)
                  /\ reminders[i].gitlab_issue_iid # NULL
                  /\ Val(reminders[i].gitlab_issue_iid) \in syncClosed)
                     => reminders'[i].status = "done"
       /\ last'.op = "load_read" =>
             \A i \in ExistingRemIds : Awaiting(i) => \A r \in loadSnap' : r.id # i
       /\ last'.op = "load_schedule" =>
             \A i \in ExistingRemIds : Awaiting(i) => JobsFor(i)' = JobsFor(i)]_vars

\* the process was started again while the reminder waits: its loader has just
\* scheduled what it read, no timer is armed for the reminder, and the sync pass
\* of this start has been told that the reminder's issue is closed
C37_Witness ==
    /\ last.op = "load_schedule"
    /\ \E i \in ExistingRemIds :
          /\ Awaiting(i)
          /\ JobsFor(i) = {}
          /\ reminders[i].gitlab_issue_iid # NULL
          /\ Val(reminders[i].gitlab_issue_iid) \in syncClosed


\* C38: after every step the stored hour of the time stepper, when there is
\* one, is in 0..23 and the stored minute in 0..59; an hour adjustment stores
\* the hour congruent modulo 24 to the old hour (9 when none is stored) plus the
\* step and leaves the minute alone, and a minute adjustment does the same modulo
\* 60 (default 0) and never changes the hour.
C38_StepperWraps ==
    [][/\ user_data'.remind_h # NULL => Val(user_data'.remind_h) \in 0..23
       /\ user_data'.remind_m # NULL => Val(user_data'.remind_m) \in 0..59
       /\ last'.op \in {"adj_h", "adj_h_raised"} =>
             /\ user_data'.remind_m = user_data.remind_m
             /\ \E k \in -1..1 :
                   Val(user_data'.remind_h)
                       = (IF user_data.remind_h = NULL THEN 9 ELSE Val(user_data.remind_h))
                           + last'.id + 24 * k
       /\ last'.op \in {"adj_m", "adj_m_raised"} =>
             /\ user_data'.remind_h = user_data.remind_h
             /\ \E k \in -1..1 :
                   Val(user_data'.remind_m)
                       = (IF user_data.remind_m = NULL THEN 0 ELSE Val(user_data.remind_m))
                           + last'.id + 60 * k]_vars

\* thirty minutes were taken off a stored 23:20: the stepper shows 23:50
C38_Witness ==
    /\ last = [op |-> "adj_m", id |-> -30]
    /\ user_data = [remind_h |-> Some(23), remind_m |-> Some(50)]

=============================================================================
